---- MODULE Spec2Model ----
(***************************************************************************)
(* Model of the park-intelligence application (src/app.py): the area-data  *)
(* normaliser, the local-authority resolver, the connectivity and mobile   *)
(* scorers, the opportunity and flag engines, the company classifier, the  *)
(* registry request, and the single-park and area report handlers.         *)
(*                                                                         *)
(* Encoding.                                                               *)
(*   - A Python value that may be None is a sequence: <<>> is None and     *)
(*     <<v>> is the value v.                                               *)
(*   - A Python str is a sequence of one-character strings.                *)
(*   - A dict is a function; the empty dict {} is the function with the    *)
(*     empty domain, and "not d" is DOMAIN d = {}.  None and {} are the    *)
(*     same value here: the code tells a dict from None only by "not d".   *)
(*   - Percentages are whole numbers; a score is computed in tenths so     *)
(*     that 0.4, 0.3 and 0.2 are the integers 4, 3 and 2.                  *)
(***************************************************************************)
EXTENDS Integers, Sequences, FiniteSets, TLC

VARIABLES
    ofcom_data,   \* the area dataset: sequence of [key, val] in iteration order
    park,         \* the selected park profile
    companies,    \* the registry items for the park's postcode
    raw,          \* the raw area entry handed to flatten_ofcom
    ofcom,        \* the normalised area record ({} is "no data")
    conn_score,   \* score_connectivity(ofcom)[0]
    conn_rag,     \* score_connectivity(ofcom)[1]
    mob_score,    \* score_mobile(ofcom)
    ops,          \* generate_opportunities(...)
    opp_section,  \* the paragraphs under "Commercial Opportunities" in the document
    pc,           \* position of the handler
    flags,        \* generate_flags(...): sequence of <<title, detail>>
    sectors,      \* classify_companies(companies): sequence of <<label, count>>
    api_key,      \* the registry credential ch_api_key
    response,     \* what the registry does with a request
    requests_made,\* number of requests.get calls made
    view,         \* what the interactive view shows
    document,     \* what the single-park document shows
    raised,       \* TRUE when the handler ended with an exception
    session_state,    \* st.session_state: a dict, with the key "authenticated"
    pw,               \* the text in the password field in this script run
    login_pressed,    \* TRUE in the script run that the Login button starts
    generate_pressed  \* TRUE in the script run that a Generate button starts

vars == <<ofcom_data, park, companies, raw, ofcom, conn_score, conn_rag,
          mob_score, ops, opp_section, pc, flags, sectors, api_key, response,
          requests_made, view, document, raised, session_state, pw,
          login_pressed, generate_pressed>>

\* the session and the widgets of the current script run
session == <<session_state, pw, login_pressed, generate_pressed>>

\* the variables of the flags, the classifier, the registry request and the
\* two renderings
aux == <<flags, sectors, api_key, response, requests_made, view, document,
         raised, session>>

----------------------------------------------------------------------------
(* Bounds of the model *)

\* percentages are drawn from the NumPct+1 grid points of 0..100
NumPct == 8

\* a park's local-authority name has at most MaxKeyLen characters
MaxKeyLen == 2

\* the keys of the area dataset have at most MaxKeyChars characters in all
MaxKeyChars == 3

----------------------------------------------------------------------------
(* Python values *)

None == <<>>
Some(v) == <<v>>

\* x or 0, for x a number or None
or0(x) == IF x = None THEN 0 ELSE x[1]

\* the dict {}
EmptyDict == [k \in {} |-> None]

\* not d
falsy(d) == DOMAIN d = {}

Min(a, b) == IF a <= b THEN a ELSE b
Max(a, b) == IF a >= b THEN a ELSE b

\* round(x) of Python 3 for x = x10/10, x10 >= 0: nearest integer, ties to even.
\* (The code sums doubles. A sum that is no tie rounds as below for every
\* whole-number input; an exact tie may reach round() a hair above or below
\* .5 and then go to either neighbour, so the properties below only rely on
\* the result being a nearest integer.)
round10(x10) ==
    LET q == x10 \div 10
        r == x10 % 10
    IN  IF r < 5 THEN q
        ELSE IF r > 5 THEN q + 1
        ELSE IF q % 2 = 0 THEN q ELSE q + 1

----------------------------------------------------------------------------
(* The canonical (flat) area record *)

CanonicalFields ==
    {"full_fibre_pct", "gigabit_pct", "superfast_pct", "no_decent_pct",
     "full_fibre_takeup_pct", "avg_data_usage_gb",
     "indoor_4g_pct", "outdoor_4g_pct", "outdoor_5g_pct", "indoor_voice_pct"}

PctVals == {(100 * i) \div NumPct : i \in 0..NumPct}
OptPct == {None} \cup {Some(p) : p \in PctVals}

\* ofcom.get(k, 0) or 0
get0(d, k) == IF k \in DOMAIN d THEN or0(d[k]) ELSE 0

AllNone == [k \in CanonicalFields |-> None]

----------------------------------------------------------------------------
(* score_connectivity, score_mobile *)

\* variant: the gigabit term is not capped at 20
score_connectivity_nocap(o) ==
    IF falsy(o) THEN <<None, "No data">>
    ELSE LET ff == get0(o, "full_fibre_pct")
             gig == get0(o, "gigabit_pct")
             sup == get0(o, "superfast_pct")
             no_decent == get0(o, "no_decent_pct")
             score == round10(Min(400, ff * 4) + gig * 3
                              + Min(200, sup * 2) + Max(0, 200 - no_decent * 20))
             rag == IF score >= 70 THEN "Green"
                    ELSE IF score >= 40 THEN "Amber"
                    ELSE "Red"
         IN  <<Some(score), rag>>

\* variant: Green only above 70
score_connectivity_gt70(o) ==
    IF falsy(o) THEN <<None, "No data">>
    ELSE LET ff == get0(o, "full_fibre_pct")
             gig == get0(o, "gigabit_pct")
             sup == get0(o, "superfast_pct")
             no_decent == get0(o, "no_decent_pct")
             score == round10(Min(400, ff * 4) + Min(200, gig * 3)
                              + Min(200, sup * 2) + Max(0, 200 - no_decent * 20))
             rag == IF score > 70 THEN "Green"
                    ELSE IF score >= 40 THEN "Amber"
                    ELSE "Red"
         IN  <<Some(score), rag>>

\* variant: the no-decent-broadband term is added as min(20, 2*no_decent)
score_connectivity_ndsign(o) ==
    IF falsy(o) THEN <<None, "No data">>
    ELSE LET ff == get0(o, "full_fibre_pct")
             gig == get0(o, "gigabit_pct")
             sup == get0(o, "superfast_pct")
             no_decent == get0(o, "no_decent_pct")
             score == round10(Min(400, ff * 4) + Min(200, gig * 3)
                              + Min(200, sup * 2) + Min(200, no_decent * 20))
             rag == IF score >= 70 THEN "Green"
                    ELSE IF score >= 40 THEN "Amber"
                    ELSE "Red"
         IN  <<Some(score), rag>>

score_connectivity(o) ==
    IF falsy(o) THEN <<None, "No data">>
    ELSE LET ff == get0(o, "full_fibre_pct")
             gig == get0(o, "gigabit_pct")
             sup == get0(o, "superfast_pct")
             no_decent == get0(o, "no_decent_pct")
             score == round10(Min(400, ff * 4) + Min(200, gig * 3)
                              + Min(200, sup * 2) + Max(0, 200 - no_decent * 20))
             rag == IF score >= 70 THEN "Green"
                    ELSE IF score >= 40 THEN "Amber"
                    ELSE "Red"
         IN  <<Some(score), rag>>

score_mobile(o) ==
    IF falsy(o) THEN None
    ELSE LET g4 == get0(o, "indoor_4g_pct")
             g5 == get0(o, "outdoor_5g_pct")
             voice == get0(o, "indoor_voice_pct")
         IN  Some(round10(Min(400, g4 * 4) + Min(400, g5 * 4) + Min(200, voice * 2)))

----------------------------------------------------------------------------
(* Defaults for the parts of the state a specification does not exercise *)

NoPark == [local_authority |-> <<>>, sector |-> <<>>, notes |-> <<>>,
           tenants |-> <<>>]

\* a handler runs in a script run of an authenticated session, started by
\* its Generate button (everything after line 40)
InHandlerRun ==
    /\ session_state = [authenticated |-> TRUE]
    /\ pw = <<>>
    /\ login_pressed = FALSE
    /\ generate_pressed = TRUE

\* nothing computed, requested or shown yet
InitAux ==
    /\ InHandlerRun
    /\ flags = <<>>
    /\ sectors = <<>>
    /\ api_key = <<>>
    /\ response = "none"
    /\ requests_made = 0
    /\ view = <<>>
    /\ document = <<>>
    /\ raised = FALSE

----------------------------------------------------------------------------
(* Specification SpecConn: score_connectivity on every normalised record   *)

ConnRecords ==
    {[AllNone EXCEPT !["full_fibre_pct"] = a, !["gigabit_pct"] = b,
                     !["superfast_pct"] = c, !["no_decent_pct"] = d] :
        a \in OptPct, b \in OptPct, c \in OptPct, d \in OptPct}

InitConn ==
    /\ ofcom \in {EmptyDict} \cup ConnRecords
    /\ ofcom_data = <<>>
    /\ park = NoPark
    /\ companies = <<>>
    /\ raw = None
    /\ conn_score = None
    /\ conn_rag = "unset"
    /\ mob_score = None
    /\ ops = <<>>
    /\ opp_section = <<>>
    /\ pc = "start"
    /\ InitAux

ScoreConnectivity ==
    /\ pc = "start"
    /\ conn_score' = score_connectivity(ofcom)[1]
    /\ conn_rag' = score_connectivity(ofcom)[2]
    /\ pc' = "done"
    /\ UNCHANGED <<ofcom_data, park, companies, raw, ofcom, mob_score, ops, opp_section>>
    /\ UNCHANGED aux

NextConn == ScoreConnectivity

SpecConn == InitConn /\ [][NextConn]_vars

\* the value of a field of the record, an absent field counted as 0
val0(o, k) == or0(o[k])

\* ten times the weighted sum of the connectivity formula, clamped to [0,100]
ConnSum10(o) ==
    LET t == Min(400, 4 * val0(o, "full_fibre_pct"))
             + Min(200, 3 * val0(o, "gigabit_pct"))
             + Min(200, 2 * val0(o, "superfast_pct"))
             + Max(0, 200 - 20 * val0(o, "no_decent_pct"))
    IN  Min(1000, Max(0, t))

\* n is an integer nearest to x10/10
Nearest(n, x10) == 10 * n - x10 <= 5 /\ x10 - 10 * n <= 5

\* C1: for a non-empty normalised record with percentages in 0..100 the
\* score of score_connectivity is min(40, 0.4*full_fibre) + min(20,
\* 0.3*gigabit) + min(20, 0.2*superfast) + max(0, 20 - 2*no_decent), absent
\* fields counted as 0, clamped to [0,100] and rounded to a nearest integer.
C1_ScoreFormula ==
    (pc = "done" /\ ~falsy(ofcom)) =>
        /\ conn_score # None
        /\ Nearest(conn_score[1], ConnSum10(ofcom))

\* a scored record with an absent field, a capped term and a fractional sum
C1_Witness ==
    /\ pc = "done"
    /\ ofcom # EmptyDict
    /\ ofcom["gigabit_pct"] = None
    /\ ofcom["full_fibre_pct"] = Some(62)
    /\ ofcom["superfast_pct"] = Some(100)
    /\ ofcom["no_decent_pct"] = Some(0)
    /\ conn_score = Some(65)

\* C2: score_connectivity returns an absent score exactly for "no data" (with
\* status "No data"), and otherwise an integer score in 0..100 with status
\* Green iff score >= 70, Amber iff 40 <= score <= 69, Red iff score < 40.
C2_ScoreRangeAndStatus ==
    pc = "done" =>
        /\ (conn_score = None) <=> falsy(ofcom)
        /\ conn_score = None => conn_rag = "No data"
        /\ conn_score # None =>
              LET s == conn_score[1]
              IN  /\ s \in 0..100
                  /\ conn_rag \in {"Green", "Amber", "Red"}
                  /\ (conn_rag = "Green") <=> (s >= 70)
                  /\ (conn_rag = "Amber") <=> (40 <= s /\ s <= 69)
                  /\ (conn_rag = "Red") <=> (s < 40)

\* the boundary score 70 is reached and is Green
C2_Witness == pc = "done" /\ conn_score = Some(70) /\ conn_rag = "Green"

\* the other three boundary scores of the claim are reached as well
C2_Reach69 == pc = "done" /\ conn_score = Some(69) /\ conn_rag = "Amber"
C2_Reach40 == pc = "done" /\ conn_score = Some(40) /\ conn_rag = "Amber"
C2_Reach39 == pc = "done" /\ conn_score = Some(39) /\ conn_rag = "Red"

\* C3: between two non-empty records that differ in one field, the score
\* does not decrease when full-fibre, gigabit or superfast increases and
\* does not increase when no-decent-broadband increases.
C3_Monotone ==
    (pc = "done" /\ ~falsy(ofcom)) =>
        /\ \A k \in {"full_fibre_pct", "gigabit_pct", "superfast_pct"} :
              \A v \in PctVals :
                 v >= val0(ofcom, k) =>
                    score_connectivity([ofcom EXCEPT ![k] = Some(v)])[1][1]
                        >= conn_score[1]
        /\ \A v \in PctVals :
              v >= val0(ofcom, "no_decent_pct") =>
                 score_connectivity([ofcom EXCEPT !["no_decent_pct"] = Some(v)])[1][1]
                     <= conn_score[1]

\* a scored record whose score strictly rises with full fibre and strictly
\* falls with no-decent-broadband
C3_Witness ==
    /\ pc = "done"
    /\ ofcom # EmptyDict
    /\ ofcom["full_fibre_pct"] = Some(50)
    /\ ofcom["no_decent_pct"] = Some(0)
    /\ score_connectivity([ofcom EXCEPT !["full_fibre_pct"] = Some(100)])[1][1]
           > conn_score[1]
    /\ score_connectivity([ofcom EXCEPT !["no_decent_pct"] = Some(100)])[1][1]
           < conn_score[1]

----------------------------------------------------------------------------
(* Specification SpecMob: score_mobile on every normalised record          *)

\* records with and without mobile fields, with or without a connectivity field
MobRecords ==
    {[AllNone EXCEPT !["indoor_4g_pct"] = a, !["outdoor_5g_pct"] = b,
                     !["indoor_voice_pct"] = c, !["full_fibre_pct"] = d] :
        a \in OptPct, b \in OptPct, c \in OptPct, d \in {None, Some(100)}}

InitMob ==
    /\ ofcom \in {EmptyDict} \cup MobRecords
    /\ ofcom_data = <<>>
    /\ park = NoPark
    /\ companies = <<>>
    /\ raw = None
    /\ conn_score = None
    /\ conn_rag = "unset"
    /\ mob_score = None
    /\ ops = <<>>
    /\ opp_section = <<>>
    /\ pc = "start"
    /\ InitAux

ScoreMobile ==
    /\ pc = "start"
    /\ mob_score' = score_mobile(ofcom)
    /\ pc' = "done"
    /\ UNCHANGED <<ofcom_data, park, companies, raw, ofcom, conn_score,
                   conn_rag, ops, opp_section>>
    /\ UNCHANGED aux

NextMob == ScoreMobile

SpecMob == InitMob /\ [][NextMob]_vars

\* the record has none of its mobile fields
LacksMobile(o) ==
    /\ o["indoor_4g_pct"] = None
    /\ o["outdoor_5g_pct"] = None
    /\ o["indoor_voice_pct"] = None

MobSum10(o) ==
    LET t == Min(400, 4 * val0(o, "indoor_4g_pct"))
             + Min(400, 4 * val0(o, "outdoor_5g_pct"))
             + Min(200, 2 * val0(o, "indoor_voice_pct"))
    IN  Min(1000, Max(0, t))

\* C4: score_mobile returns an absent score when the record is "no data" and
\* when the record has none of its mobile fields; for every other record it
\* returns min(40, 0.4*indoor_4g) + min(40, 0.4*outdoor_5g) + min(20,
\* 0.2*indoor_voice), absent fields counted as 0, clamped and rounded.
C4_MobileAbsentOrFormula ==
    pc = "done" =>
        IF falsy(ofcom) \/ LacksMobile(ofcom)
        THEN mob_score = None
        ELSE mob_score # None /\ Nearest(mob_score[1], MobSum10(ofcom))

\* what the code does for the records that have a mobile field, and for "no data"
C4_FormulaWhereMobilePresent ==
    pc = "done" =>
        /\ falsy(ofcom) => mob_score = None
        /\ (~falsy(ofcom) /\ ~LacksMobile(ofcom)) =>
              mob_score # None /\ Nearest(mob_score[1], MobSum10(ofcom))

----------------------------------------------------------------------------
(* flatten_ofcom *)

\* d.get(k): the value under k, None when the key is missing
dget(d, k) == IF k \in DOMAIN d THEN d[k] ELSE None

\* the canonical field filled from each key of the "connectivity" sub-object
\* (line 79: the take-up key is named differently in the raw entry)
flatten_ofcom(r) ==
    IF falsy(r) THEN EmptyDict
    ELSE LET conn == dget(r, "connectivity")    \* raw.get("connectivity") or {}
             mob == dget(r, "mobile")           \* raw.get("mobile") or {}
             flat ==
               [full_fibre_pct        |-> dget(conn, "full_fibre_pct"),
                gigabit_pct           |-> dget(conn, "gigabit_pct"),
                superfast_pct         |-> dget(conn, "superfast_pct"),
                no_decent_pct         |-> dget(conn, "no_decent_pct"),
                full_fibre_takeup_pct |-> dget(conn, "ff_takeup_pct"),
                avg_data_usage_gb     |-> dget(conn, "avg_data_usage_gb"),
                indoor_4g_pct         |-> dget(mob, "indoor_4g_all_operators_pct"),
                outdoor_4g_pct        |-> dget(mob, "outdoor_4g_all_operators_pct"),
                outdoor_5g_pct        |-> dget(mob, "outdoor_5g_all_operators_pct"),
                indoor_voice_pct      |-> dget(mob, "indoor_voice_all_operators_pct")]
             conn_vals ==
               {k \in {"full_fibre_pct", "gigabit_pct", "indoor_4g_pct",
                       "outdoor_5g_pct"} : flat[k] # None}
         IN  IF conn_vals # {} /\ \A k \in conn_vals : flat[k][1] = 0
             THEN EmptyDict
             ELSE flat

----------------------------------------------------------------------------
(* Specification SpecFlatten: flatten_ofcom on raw entries of every shape  *)

\* the values a raw field takes in the model
RawVals == {Some(0), Some(95)}

\* the dicts that give a value to some of the keys K
Dicts(K) == UNION {[S -> RawVals] : S \in SUBSET K}

ConnGroups ==
    Dicts({"full_fibre_pct", "gigabit_pct", "superfast_pct", "ff_takeup_pct"})
MobGroups ==
    Dicts({"indoor_4g_all_operators_pct", "outdoor_5g_all_operators_pct"})
TopLevel ==
    Dicts({"full_fibre_pct", "gigabit_pct", "indoor_4g_pct", "outdoor_5g_pct"})

\* a raw entry: top-level (flat) fields, with or without the nested
\* "connectivity" and "mobile" sub-objects; None is a missing entry and a
\* dict without any key is an empty one
RawEntries ==
    {None}
    \cup TopLevel
    \cup {("connectivity" :> c) @@ t : c \in ConnGroups, t \in TopLevel}
    \cup {("mobile" :> m) @@ t : m \in MobGroups, t \in TopLevel}
    \cup {("connectivity" :> c) @@ ("mobile" :> m) @@ t :
             c \in ConnGroups, m \in MobGroups, t \in TopLevel}

InitFlatten ==
    /\ raw \in RawEntries
    /\ ofcom = EmptyDict
    /\ ofcom_data = <<>>
    /\ park = NoPark
    /\ companies = <<>>
    /\ conn_score = None
    /\ conn_rag = "unset"
    /\ mob_score = None
    /\ ops = <<>>
    /\ opp_section = <<>>
    /\ pc = "start"
    /\ InitAux

Flatten ==
    /\ pc = "start"
    /\ ofcom' = flatten_ofcom(raw)
    /\ pc' = "done"
    /\ UNCHANGED <<ofcom_data, park, companies, raw, conn_score, conn_rag,
                   mob_score, ops, opp_section>>
    /\ UNCHANGED aux

NextFlatten == Flatten

SpecFlatten == InitFlatten /\ [][NextFlatten]_vars

\* where the raw entry keeps a canonical field when it is nested
Group(f) ==
    IF f \in {"indoor_4g_pct", "outdoor_4g_pct", "outdoor_5g_pct", "indoor_voice_pct"}
    THEN "mobile" ELSE "connectivity"

NestedKey(f) ==
    CASE f = "full_fibre_takeup_pct" -> "ff_takeup_pct"
      [] f = "indoor_4g_pct" -> "indoor_4g_all_operators_pct"
      [] f = "outdoor_4g_pct" -> "outdoor_4g_all_operators_pct"
      [] f = "outdoor_5g_pct" -> "outdoor_5g_all_operators_pct"
      [] f = "indoor_voice_pct" -> "indoor_voice_all_operators_pct"
      [] OTHER -> f

\* the source value of a canonical field: from the nested sub-group when the
\* raw entry has it, otherwise from the flat top-level entry
SourceValue(r, f) ==
    IF Group(f) \in DOMAIN r THEN dget(r[Group(f)], NestedKey(f)) ELSE dget(r, f)

Headline == {"full_fibre_pct", "gigabit_pct", "indoor_4g_pct", "outdoor_5g_pct"}

\* C5: for every raw entry whose four headline fields are all present and
\* all zero, flatten_ofcom returns "no data", whatever the other fields.
C5_ZeroGuard ==
    (pc = "done" /\ \A f \in Headline : SourceValue(raw, f) = Some(0)) =>
        falsy(ofcom)

\* the zero guard where the code looks for the fields: all four headline
\* fields present and zero in the nested sub-objects gives "no data"
C5_ZeroGuardNested ==
    (/\ pc = "done"
     /\ \A f \in Headline :
           /\ Group(f) \in DOMAIN raw
           /\ dget(raw[Group(f)], NestedKey(f)) = Some(0)) =>
        falsy(ofcom)

\* the nested zero guard is exercised with another field non-zero
C5_ReachNested ==
    /\ pc = "done"
    /\ \A f \in Headline :
          /\ Group(f) \in DOMAIN raw
          /\ dget(raw[Group(f)], NestedKey(f)) = Some(0)
    /\ dget(raw["connectivity"], "superfast_pct") = Some(95)
    /\ falsy(ofcom)

\* C6: flatten_ofcom returns "no data" for a missing or empty raw entry; for
\* every other entry each canonical field of the result is its source value
\* (nested sub-group when present, otherwise the flat top-level entry), and
\* a field with no source value is absent, never 0.
C6_FlatOrNested ==
    pc = "done" =>
        /\ falsy(raw) => falsy(ofcom)
        /\ (~falsy(raw) /\ ~falsy(ofcom)) =>
              \A f \in CanonicalFields : ofcom[f] = SourceValue(raw, f)

\* what the code does: fields come from the nested sub-objects only
C6_NestedOnly ==
    pc = "done" =>
        /\ falsy(raw) => falsy(ofcom)
        /\ (~falsy(raw) /\ ~falsy(ofcom)) =>
              \A f \in CanonicalFields :
                 ofcom[f] = IF Group(f) \in DOMAIN raw
                            THEN dget(raw[Group(f)], NestedKey(f))
                            ELSE None

----------------------------------------------------------------------------
(* Python str operations, on sequences of characters *)

UpperCase == <<"A", "B", "C", "D", "E", "F", "G", "H", "I", "J", "K", "L", "M",
               "N", "O", "P", "Q", "R", "S", "T", "U", "V", "W", "X", "Y", "Z">>
LowerCase == <<"a", "b", "c", "d", "e", "f", "g", "h", "i", "j", "k", "l", "m",
               "n", "o", "p", "q", "r", "s", "t", "u", "v", "w", "x", "y", "z">>

lower_char(c) ==
    IF \E i \in 1..26 : UpperCase[i] = c
    THEN LowerCase[CHOOSE i \in 1..26 : UpperCase[i] = c]
    ELSE c

\* s.lower()
lower(s) == [i \in 1..Len(s) |-> lower_char(s[i])]

\* s.strip(): without the leading and the trailing whitespace
RECURSIVE lstrip(_)
lstrip(s) == IF s # <<>> /\ Head(s) = " " THEN lstrip(Tail(s)) ELSE s

RECURSIVE rstrip(_)
rstrip(s) ==
    IF s # <<>> /\ s[Len(s)] = " " THEN rstrip(SubSeq(s, 1, Len(s) - 1)) ELSE s

strip(s) == rstrip(lstrip(s))

\* needle in hay
Contains(hay, needle) ==
    \E i \in 0..(Len(hay) - Len(needle)) :
        SubSeq(hay, i + 1, i + Len(needle)) = needle

----------------------------------------------------------------------------
(* get_ofcom *)

\* variant: one loop that takes the first key matching exactly or by substring
get_ofcom_oneloop(data, local_authority) ==
    IF data = <<>> THEN EmptyDict
    ELSE LET la_lower == strip(lower(local_authority))
             hit(i) == \/ strip(lower(data[i].key)) = la_lower
                       \/ Contains(lower(data[i].key), la_lower)
                       \/ Contains(la_lower, lower(data[i].key))
         IN  IF \E i \in 1..Len(data) : hit(i)
             THEN flatten_ofcom(data[CHOOSE i \in 1..Len(data) :
                                       hit(i) /\ \A j \in 1..(i - 1) : ~hit(j)].val)
             ELSE EmptyDict

\* the first loop (lines 102-104) from item i on: index of the first key equal
\* to la_lower after lower() and strip(), 0 when the loop falls through
RECURSIVE exact_loop(_, _, _)
exact_loop(data, la_lower, i) ==
    IF i > Len(data) THEN 0
    ELSE IF strip(lower(data[i].key)) = la_lower THEN i
    ELSE exact_loop(data, la_lower, i + 1)

\* the second loop (lines 106-108) from item i on
RECURSIVE fuzzy_loop(_, _, _)
fuzzy_loop(data, la_lower, i) ==
    IF i > Len(data) THEN 0
    ELSE IF \/ Contains(lower(data[i].key), la_lower)
            \/ Contains(la_lower, lower(data[i].key)) THEN i
    ELSE fuzzy_loop(data, la_lower, i + 1)

get_ofcom(data, local_authority) ==
    IF data = <<>> THEN EmptyDict
    ELSE LET la_lower == strip(lower(local_authority))
             e == exact_loop(data, la_lower, 1)
             f == fuzzy_loop(data, la_lower, 1)
         IN  IF e # 0 THEN flatten_ofcom(data[e].val)
             ELSE IF f # 0 THEN flatten_ofcom(data[f].val)
             ELSE EmptyDict

----------------------------------------------------------------------------
(* Specification SpecResolve: get_ofcom on every dataset and query         *)

KeyChars == {"a", "A", " "}

RECURSIVE StringsUpTo(_)
StringsUpTo(n) ==
    IF n = 0 THEN {<<>>}
    ELSE LET shorter == StringsUpTo(n - 1)
         IN  shorter \cup {Append(t, c) : t \in shorter, c \in KeyChars}

KeyStrings == StringsUpTo(MaxKeyLen)

\* the sequences of distinct keys that extend ks by at most budget characters
RECURSIVE KeySeqsFrom(_, _)
KeySeqsFrom(ks, budget) ==
    {ks} \cup UNION {KeySeqsFrom(Append(ks, k), budget - Len(k)) :
                        k \in {x \in StringsUpTo(budget) :
                                 \A i \in 1..Len(ks) : ks[i] # x}}

\* the entry under the i-th key: entries differ, so the record returned
\* tells which key was matched
EntryAt(i) == "connectivity" :> ("full_fibre_pct" :> Some(10 * i))

\* datasets: distinct keys in file order
Datasets ==
    {[i \in 1..Len(ks) |-> [key |-> ks[i], val |-> EntryAt(i)]] :
        ks \in KeySeqsFrom(<<>>, MaxKeyChars)}

InitResolve ==
    /\ ofcom_data \in Datasets
    /\ park \in {[NoPark EXCEPT !.local_authority = la] : la \in KeyStrings}
    /\ ofcom = EmptyDict
    /\ companies = <<>>
    /\ raw = None
    /\ conn_score = None
    /\ conn_rag = "unset"
    /\ mob_score = None
    /\ ops = <<>>
    /\ opp_section = <<>>
    /\ pc = "start"
    /\ InitAux

GetOfcom ==
    /\ pc = "start"
    /\ ofcom' = get_ofcom(ofcom_data, park.local_authority)
    /\ pc' = "done"
    /\ UNCHANGED <<ofcom_data, park, companies, raw, conn_score, conn_rag,
                   mob_score, ops, opp_section>>
    /\ UNCHANGED aux

NextResolve == GetOfcom

SpecResolve == InitResolve /\ [][NextResolve]_vars

\* the query as the resolver compares it
Query == strip(lower(park.local_authority))

ExactKeys == {i \in 1..Len(ofcom_data) : strip(lower(ofcom_data[i].key)) = Query}

SubstringKeys ==
    {i \in 1..Len(ofcom_data) :
        \/ Contains(lower(ofcom_data[i].key), Query)
        \/ Contains(Query, lower(ofcom_data[i].key))}

First(S) == CHOOSE i \in S : \A j \in S : i <= j

\* C7: get_ofcom returns the normalisation of the entry whose key equals the
\* query after lower-casing and trimming whenever there is one, even when an
\* earlier key matches by substring; with no exact match, that of the first
\* key in iteration order that contains the query or is contained in it;
\* with no match either way, "no data".
C7_ExactThenFirstSubstring ==
    pc = "done" =>
        IF ExactKeys # {}
        THEN ofcom = flatten_ofcom(ofcom_data[First(ExactKeys)].val)
        ELSE IF SubstringKeys # {}
        THEN ofcom = flatten_ofcom(ofcom_data[First(SubstringKeys)].val)
        ELSE ofcom = EmptyDict

\* the second key matches exactly, the first one only by substring, and the
\* second key's entry is returned
C7_Witness ==
    /\ pc = "done"
    /\ Len(ofcom_data) = 2
    /\ Query # <<>>
    /\ ofcom_data[1].key # <<>>
    /\ ExactKeys = {2}
    /\ 1 \in SubstringKeys
    /\ ofcom = flatten_ofcom(ofcom_data[2].val)
    /\ ofcom # flatten_ofcom(ofcom_data[1].val)

\* no exact match, both keys match by substring, the first is returned
C7_ReachFuzzy ==
    /\ pc = "done"
    /\ Query # <<>>
    /\ ExactKeys = {}
    /\ SubstringKeys = {1, 2}
    /\ ofcom_data[1].key # <<>>
    /\ ofcom_data[2].key # <<>>
    /\ ofcom = flatten_ofcom(ofcom_data[1].val)

\* nothing matches
C7_ReachNoMatch ==
    /\ pc = "done"
    /\ ofcom_data # <<>>
    /\ SubstringKeys = {}
    /\ ofcom = EmptyDict

----------------------------------------------------------------------------
(* generate_opportunities *)

\* the opportunity strings, each named by its opening words; an entry of the
\* list is a tuple, <<text>> or, for the registry rule, <<text, count>>
OpFullFibre == <<"Campus-wide full fibre upgrade">>
OpGigabit == <<"Gigabit connectivity programme">>
OpMigration == <<"Managed connectivity migration">>
OpIndoor4G == <<"Indoor 4G/mobile enhancement">>
Op5G == <<"5G readiness / private 5G network">>
OpGenomics == <<"Dedicated high-bandwidth research network tier">>
OpSecure == <<"Secure segregated network architecture">>
OpStartup == <<"Flexible start-up connectivity packages">>
OpResilience == <<"High-resilience network with dual-path routing">>
OpCompute == <<"10Gbps+ connectivity for GPU/HPC cluster operations">>
OpCompliance == <<"Compliance-ready network with audit logging">>
OpRegistry(n) == <<"Campus-wide managed connectivity covering", n>>
OpCampusScale == <<"Campus-scale network more cost-effective than per-tenant provision">>

\* the keyword lists of lines 198-208
KwGenomics ==
    <<<<"g", "e", "n", "o", "m", "i", "c">>,
      <<"b", "i", "o", "m", "e", "d", "i", "c", "a", "l">>,
      <<"s", "e", "q", "u", "e", "n", "c">>,
      <<"c", "l", "i", "n", "i", "c", "a", "l">>>>
KwSecure ==
    <<<<"s", "p", "a", "c", "e">>,
      <<"s", "a", "t", "e", "l", "l", "i", "t", "e">>,
      <<"i", "t", "a", "r">>,
      <<"d", "e", "f", "e", "n", "c", "e">>>>
KwStartup ==
    <<<<"i", "n", "c", "u", "b", "a", "t">>,
      <<"e", "a", "r", "l", "y", "-", "s", "t", "a", "g", "e">>,
      <<"s", "p", "i", "n", "o", "u", "t">>,
      <<"a", "c", "c", "e", "l", "e", "r", "a", "t">>>>
KwResilience ==
    <<<<"n", "u", "c", "l", "e", "a", "r">>,
      <<"f", "u", "s", "i", "o", "n">>,
      <<"e", "n", "e", "r", "g", "y">>>>
KwCompute ==
    <<<<"a", "i">>,
      <<"g", "p", "u">>,
      <<"c", "o", "m", "p", "u", "t", "i", "n", "g">>,
      <<"h", "p", "c">>,
      <<"d", "e", "e", "p", " ", "t", "e", "c", "h">>>>
KwCompliance ==
    <<<<"p", "h", "a", "r", "m", "a">>,
      <<"c", "l", "i", "n", "i", "c", "a", "l", " ", "t", "r", "i", "a", "l">>,
      <<"m", "h", "r", "a">>>>

\* any(x in sector or x in notes for x in kws)
any_in(kws, sector, notes) ==
    \E i \in 1..Len(kws) : Contains(sector, kws[i]) \/ Contains(notes, kws[i])

ACTIVE == <<"a", "c", "t", "i", "v", "e">>

\* sum(1 for c in companies if c.get("company_status", "").lower() == "active")
RECURSIVE count_active(_)
count_active(cs) ==
    IF cs = <<>> THEN 0
    ELSE (IF lower(Head(cs).company_status) = ACTIVE THEN 1 ELSE 0)
         + count_active(Tail(cs))

\* s.split(sep)[0]: the part of s before the first sep
RECURSIVE before(_, _)
before(s, sep) ==
    IF s = <<>> \/ Head(s) = sep THEN <<>>
    ELSE <<Head(s)>> \o before(Tail(s), sep)

Digits == <<"0", "1", "2", "3", "4", "5", "6", "7", "8", "9">>
isdigit(c) == \E d \in 1..10 : Digits[d] = c
digit_value(c) == (CHOOSE d \in 1..10 : Digits[d] = c) - 1

\* "".join(filter(str.isdigit, s))
RECURSIVE filter_digits(_)
filter_digits(s) ==
    IF s = <<>> THEN <<>>
    ELSE (IF isdigit(Head(s)) THEN <<Head(s)>> ELSE <<>>) \o filter_digits(Tail(s))

\* int(s) for a string of digits
RECURSIVE int_of(_)
int_of(s) ==
    IF s = <<>> THEN 0
    ELSE 10 * int_of(SubSeq(s, 1, Len(s) - 1)) + digit_value(s[Len(s)])

\* lines 215-220: the tenant count, None when int() raises (no digit)
tenant_number(tenants) ==
    LET digits == filter_digits(before(before(tenants, "+"), ","))
    IN  IF digits = <<>> THEN None ELSE Some(int_of(digits))

when(cond, op) == IF cond THEN <<op>> ELSE <<>>

\* variant of cap8: the last 8 entries are kept
cap8_last(s) == IF Len(s) > 8 THEN SubSeq(s, Len(s) - 7, Len(s)) ELSE s

\* ops[:8] if len(ops) > 8 else ops
cap8(s) == IF Len(s) > 8 THEN SubSeq(s, 1, 8) ELSE s

\* variant of threshold_ops: the full-fibre rule fires at 60 as well
threshold_ops_le60(o) ==
    LET ff == get0(o, "full_fibre_pct")
        gig == get0(o, "gigabit_pct")
        takeup == get0(o, "full_fibre_takeup_pct")
        g4 == get0(o, "indoor_4g_pct")
        g5 == get0(o, "outdoor_5g_pct")
    IN     when(ff <= 60, OpFullFibre)
        \o when(gig < 50, OpGigabit)
        \o when(ff > 60 /\ takeup < 30, OpMigration)
        \o when(g4 < 80, OpIndoor4G)
        \o when(g5 < 40, Op5G)

\* lines 178-182 and 187-196: the coverage-threshold rules
threshold_ops(o) ==
    LET ff == get0(o, "full_fibre_pct")
        gig == get0(o, "gigabit_pct")
        takeup == get0(o, "full_fibre_takeup_pct")
        g4 == get0(o, "indoor_4g_pct")
        g5 == get0(o, "outdoor_5g_pct")
    IN     when(ff < 60, OpFullFibre)
        \o when(gig < 50, OpGigabit)
        \o when(ff > 60 /\ takeup < 30, OpMigration)
        \o when(g4 < 80, OpIndoor4G)
        \o when(g5 < 40, Op5G)

\* lines 183-184 and 198-209: the keyword rules
keyword_ops(p) ==
    LET sector == lower(p.sector)
        notes == lower(p.notes)
    IN     when(any_in(KwGenomics, sector, notes), OpGenomics)
        \o when(any_in(KwSecure, sector, notes), OpSecure)
        \o when(any_in(KwStartup, sector, notes), OpStartup)
        \o when(any_in(KwResilience, sector, notes), OpResilience)
        \o when(any_in(KwCompute, sector, notes), OpCompute)
        \o when(any_in(KwCompliance, sector, notes), OpCompliance)

\* lines 211-213: the registry rule
registry_ops(cs) ==
    LET active_count == count_active(cs)
    IN  when(active_count >= 20, OpRegistry(active_count))

\* lines 185 and 215-220: the tenant-count rule
tenant_ops(p) ==
    LET t_num == tenant_number(p.tenants)
    IN  when(t_num # None /\ t_num[1] > 100, OpCampusScale)

generate_opportunities(p, o, cs) ==
    cap8(threshold_ops(o) \o keyword_ops(p) \o registry_ops(cs) \o tenant_ops(p))

----------------------------------------------------------------------------
(* build_intelligence_section: the "Commercial Opportunities" part *)

NoOpportunitiesParagraph == <<"No specific opportunities identified.">>

\* lines 442-447: the fallback paragraph for an empty list, then one
\* paragraph per opportunity
build_opportunities(opportunities) ==
    (IF opportunities = <<>> THEN <<NoOpportunitiesParagraph>> ELSE <<>>)
    \o opportunities

----------------------------------------------------------------------------
(* Specification SpecOps: generate_opportunities and the document section  *)

\* sector texts: none, "genomics research park", "AI", "Rail"
SectorTexts ==
    {<<>>,
     <<"g", "e", "n", "o", "m", "i", "c", "s", " ", "r", "e", "s", "e", "a", "r", "c", "h", " ", "p", "a", "r", "k">>,
     <<"A", "I">>,
     <<"R", "a", "i", "l">>}

\* notes: none, "University spinout"
NotesTexts ==
    {<<>>,
     <<"U", "n", "i", "v", "e", "r", "s", "i", "t", "y", " ", "s", "p", "i", "n", "o", "u", "t">>}

\* tenants texts: none, "50", "120+"
TenantsTexts ==
    {<<>>,
     <<"5", "0">>,
     <<"1", "2", "0", "+">>}

Parks ==
    {[local_authority |-> <<>>, sector |-> s, notes |-> n, tenants |-> t] :
        s \in SectorTexts, n \in NotesTexts, t \in TenantsTexts}

\* n copies of x
Repeat(x, n) == [i \in 1..n |-> x]

ActiveCompany == [company_status |-> <<"A", "c", "t", "i", "v", "e">>]
DissolvedCompany == [company_status |-> <<"d", "i", "s", "s", "o", "l", "v", "e", "d">>]

\* registry results: none, twenty active companies, nineteen active and one
\* dissolved (the request asks for at most 20 items, line 111)
CompanyLists ==
    {<<>>, Repeat(ActiveCompany, 20),
     Repeat(ActiveCompany, 19) \o <<DissolvedCompany>>}

\* area records around the thresholds of lines 187-196
OpsRecords ==
    {[AllNone EXCEPT !["full_fibre_pct"] = a, !["gigabit_pct"] = b,
                     !["full_fibre_takeup_pct"] = c, !["no_decent_pct"] = d,
                     !["indoor_4g_pct"] = e, !["outdoor_5g_pct"] = f] :
        a \in {None, Some(45), Some(59), Some(60), Some(61)},
        b \in {Some(35), Some(49), Some(50)},
        c \in {Some(10), Some(30)},
        d \in {Some(2), Some(5)},
        e \in {Some(60), Some(80)},
        f \in {Some(20), Some(40)}}

InitOps ==
    /\ ofcom \in {EmptyDict} \cup OpsRecords
    /\ park \in Parks
    /\ companies \in CompanyLists
    /\ ofcom_data = <<>>
    /\ raw = None
    /\ conn_score = None
    /\ conn_rag = "unset"
    /\ mob_score = None
    /\ ops = <<>>
    /\ opp_section = <<>>
    /\ pc = "start"
    /\ InitAux

\* line 476 (and 726): ops = generate_opportunities(park, ofcom or {}, companies or [])
GenerateOpportunities ==
    /\ pc = "start"
    /\ ops' = generate_opportunities(park, ofcom, companies)
    /\ pc' = "ops"
    /\ UNCHANGED <<ofcom_data, park, companies, raw, ofcom, conn_score,
                   conn_rag, mob_score, opp_section>>
    /\ UNCHANGED aux

\* line 477: build_intelligence_section(story, flags, ops, styles)
BuildIntelligenceSection ==
    /\ pc = "ops"
    /\ opp_section' = build_opportunities(ops)
    /\ pc' = "done"
    /\ UNCHANGED <<ofcom_data, park, companies, raw, ofcom, conn_score,
                   conn_rag, mob_score, ops>>
    /\ UNCHANGED aux

NextOps == GenerateOpportunities \/ BuildIntelligenceSection

SpecOps == InitOps /\ [][NextOps]_vars

\* membership in a list
InList(x, s) == \E i \in 1..Len(s) : s[i] = x

\* the last-mile opportunity of the claim; no string of the code stands for it
OpLastMile == <<"last-mile connectivity">>

\* C8: each threshold opportunity is in the list exactly when its condition
\* holds: full-fibre upgrade iff full-fibre < 60; gigabit iff gigabit < 50;
\* migration iff full-fibre > 60 and take-up < 30; last-mile iff no-decent >
\* 2; indoor-mobile iff indoor 4G < 80; 5G-readiness iff outdoor 5G < 40.
C8_ThresholdRules ==
    pc \in {"ops", "done"} =>
        /\ InList(OpFullFibre, ops) <=> (get0(ofcom, "full_fibre_pct") < 60)
        /\ InList(OpGigabit, ops) <=> (get0(ofcom, "gigabit_pct") < 50)
        /\ InList(OpMigration, ops) <=>
              (get0(ofcom, "full_fibre_pct") > 60
               /\ get0(ofcom, "full_fibre_takeup_pct") < 30)
        /\ InList(OpLastMile, ops) <=> (get0(ofcom, "no_decent_pct") > 2)
        /\ InList(OpIndoor4G, ops) <=> (get0(ofcom, "indoor_4g_pct") < 80)
        /\ InList(Op5G, ops) <=> (get0(ofcom, "outdoor_5g_pct") < 40)

\* the five threshold rules the code has, each independent of the others
C8_FiveThresholdRules ==
    pc \in {"ops", "done"} =>
        /\ InList(OpFullFibre, ops) <=> (get0(ofcom, "full_fibre_pct") < 60)
        /\ InList(OpGigabit, ops) <=> (get0(ofcom, "gigabit_pct") < 50)
        /\ InList(OpMigration, ops) <=>
              (get0(ofcom, "full_fibre_pct") > 60
               /\ get0(ofcom, "full_fibre_takeup_pct") < 30)
        /\ InList(OpIndoor4G, ops) <=> (get0(ofcom, "indoor_4g_pct") < 80)
        /\ InList(Op5G, ops) <=> (get0(ofcom, "outdoor_5g_pct") < 40)

\* the example of the claim: full-fibre 45, gigabit 35, take-up 10, no-decent
\* 5, indoor 4G 60, outdoor 5G 20, sector "genomics research park"
C8_Example ==
    /\ ofcom # EmptyDict
    /\ ofcom["full_fibre_pct"] = Some(45)
    /\ ofcom["gigabit_pct"] = Some(35)
    /\ ofcom["full_fibre_takeup_pct"] = Some(10)
    /\ ofcom["no_decent_pct"] = Some(5)
    /\ ofcom["indoor_4g_pct"] = Some(60)
    /\ ofcom["outdoor_5g_pct"] = Some(20)
    /\ park.sector = <<"g", "e", "n", "o", "m", "i", "c", "s", " ", "r", "e", "s", "e", "a", "r", "c", "h", " ", "p", "a", "r", "k">>

\* the example's list holds the full-fibre, gigabit, last-mile,
\* indoor-mobile, 5G-readiness and life-sciences opportunities
C8_ExampleList ==
    (pc \in {"ops", "done"} /\ C8_Example) =>
        \A op \in {OpFullFibre, OpGigabit, OpLastMile, OpIndoor4G, Op5G, OpGenomics} :
            InList(op, ops)

\* what the code returns for the example: all of them but the last-mile one
C8_ExampleListOfCode ==
    (pc \in {"ops", "done"} /\ C8_Example) =>
        /\ \A op \in {OpFullFibre, OpGigabit, OpIndoor4G, Op5G, OpGenomics} :
              InList(op, ops)
        /\ ~InList(OpLastMile, ops)

C8_ReachExample == pc = "done" /\ C8_Example

\* no rule of generate_opportunities fires
NoThresholdFires ==
    /\ get0(ofcom, "full_fibre_pct") >= 60
    /\ get0(ofcom, "gigabit_pct") >= 50
    /\ ~(get0(ofcom, "full_fibre_pct") > 60
         /\ get0(ofcom, "full_fibre_takeup_pct") < 30)
    /\ get0(ofcom, "indoor_4g_pct") >= 80
    /\ get0(ofcom, "outdoor_5g_pct") >= 40

NoKeywordFires ==
    \A kws \in {KwGenomics, KwSecure, KwStartup, KwResilience, KwCompute,
                KwCompliance} :
        ~any_in(kws, lower(park.sector), lower(park.notes))

NoRegistryFires == count_active(companies) < 20

NoTenantScaleFires ==
    tenant_number(park.tenants) = None \/ tenant_number(park.tenants)[1] <= 100

NoRuleFires ==
    NoThresholdFires /\ NoKeywordFires /\ NoRegistryFires /\ NoTenantScaleFires

\* the fallback opportunity of the claim; no entry of the code's list stands for it
OpFallback == <<"baseline assessment recommended">>

----------------------------------------------------------------------------
(* classify_companies, lines 151-174 *)

\* sector_map, in insertion order: <<label, codes>>
sector_map ==
    <<<<"Research & Development", {72}>>,
      <<"Software & IT", {62, 63}>>,
      <<"Pharma & Biotech", {21, 8630}>>,
      <<"Medical Devices", {2660, 8600}>>,
      <<"Engineering", {25, 28, 33}>>,
      <<"Energy Tech", {35, 3511, 3512}>>,
      <<"Telecoms", {61}>>,
      <<"Manufacturing", {24, 26, 27, 29, 30}>>>>

\* int(str(sic)[:4]) for a text of digits and letters: the number written by
\* the first four characters, None where int raises
sic_code(sic) ==
    LET head4 == SubSeq(sic, 1, Min(4, Len(sic)))
    IN  IF head4 # <<>> /\ \A i \in 1..Len(head4) : isdigit(head4[i])
        THEN Some(int_of(head4))
        ELSE None

\* the increments one company's codes give to a sector listing codes
RECURSIVE sic_hits(_, _)
sic_hits(sics, codes) ==
    IF sics = <<>> THEN 0
    ELSE (IF sic_code(Head(sics)) # None /\ sic_code(Head(sics))[1] \in codes
          THEN 1 ELSE 0)
         + sic_hits(Tail(sics), codes)

\* variant of sector_count: the company status is not looked at
RECURSIVE sector_count_anystatus(_, _)
sector_count_anystatus(cs, codes) ==
    IF cs = <<>> THEN 0
    ELSE sic_hits(Head(cs).sic_codes, codes)
         + sector_count_anystatus(Tail(cs), codes)

\* counts[sector] after the loop of lines 162-172
RECURSIVE sector_count(_, _)
sector_count(cs, codes) ==
    IF cs = <<>> THEN 0
    ELSE (IF lower(Head(cs).company_status) # ACTIVE THEN 0
          ELSE sic_hits(Head(cs).sic_codes, codes))
         + sector_count(Tail(cs), codes)

positive(entry) == entry[2] > 0

\* variant of classify_companies: companies of any status are counted
classify_companies_anystatus(cs) ==
    SelectSeq([i \in 1..Len(sector_map) |->
                  <<sector_map[i][1], sector_count_anystatus(cs, sector_map[i][2])>>],
              positive)

\* line 173: {k: v for k, v in counts.items() if v > 0}
classify_companies(cs) ==
    SelectSeq([i \in 1..Len(sector_map) |->
                  <<sector_map[i][1], sector_count(cs, sector_map[i][2])>>],
              positive)

----------------------------------------------------------------------------
(* get_companies, lines 111-123 *)

\* what the try block of lines 114-120 does with the outcome of requests.get:
\* it raises when the request raises, when the body of a 200 response is not
\* JSON and when the JSON is not an object; otherwise it returns the items
\* of a 200 response, or falls through
try_request(resp) ==
    IF resp.kind = "raise" THEN [raises |-> TRUE, returns |-> FALSE, value |-> <<>>]
    ELSE IF resp.status_code = 200
    THEN IF resp.body = "invalid" \/ resp.body = "list"
         THEN [raises |-> TRUE, returns |-> FALSE, value |-> <<>>]
         ELSE [raises |-> FALSE, returns |-> TRUE,
               value |-> IF resp.body = "items" THEN resp.items ELSE <<>>]
    ELSE [raises |-> FALSE, returns |-> FALSE, value |-> <<>>]

\* variant of get_companies: the item list of a response of any status
get_companies_anystatus(postcode, key, resp) ==
    IF key = <<>> \/ postcode = <<>>
    THEN [items |-> <<>>, requests |-> 0, raises |-> FALSE]
    ELSE [items |-> IF resp.kind = "response" /\ resp.body = "items"
                    THEN resp.items ELSE <<>>,
          requests |-> 1, raises |-> FALSE]

\* the result, the number of requests made and whether an error leaves the
\* function; "except Exception: pass" (lines 121-122) catches whatever the
\* try block raises and falls through to "return []"
get_companies(postcode, key, resp) ==
    IF key = <<>> \/ postcode = <<>>
    THEN [items |-> <<>>, requests |-> 0, raises |-> FALSE]
    ELSE LET try == try_request(resp)
         IN  [items |-> IF try.returns THEN try.value ELSE <<>>,
              requests |-> 1,
              raises |-> FALSE]

----------------------------------------------------------------------------
(* generate_flags, lines 224-250 *)

\* a flag is <<title, detail>>; the detail is the tuple of the percentages
\* that the code formats into the detail text
FlagFullFibreBelow50(ff) == <<"Full fibre below 50%", <<ff>>>>
FlagFullFibreGap(ff) == <<"Full fibre availability gap", <<ff>>>>
FlagGigabit(gig) == <<"Gigabit coverage insufficient", <<gig>>>>
FlagTakeUp(ff, takeup) == <<"Take-up gap identified", <<ff, takeup>>>>
FlagIndoor4G(g4) == <<"Indoor 4G below threshold", <<g4>>>>
Flag5G(g5) == <<"5G readiness low", <<g5>>>>
FlagLifeSciences == <<"Life sciences data intensity", <<>>>>
FlagSensitive == <<"Sensitive sector - elevated security", <<>>>>

\* the keyword lists of lines 246 and 248
KwFlagLifeSciences ==
    <<<<"g", "e", "n", "o", "m", "i", "c">>,
      <<"b", "i", "o", "m", "e", "d", "i", "c", "a", "l">>,
      <<"s", "e", "q", "u", "e", "n", "c">>>>
KwFlagSensitive ==
    <<<<"d", "e", "f", "e", "n", "c", "e">>,
      <<"i", "t", "a", "r">>,
      <<"s", "p", "a", "c", "e">>,
      <<"n", "u", "c", "l", "e", "a", "r">>,
      <<"s", "e", "c", "r", "e", "t">>>>

\* lines 226-230 and 234-245: the coverage-threshold flags
threshold_flags(o) ==
    LET ff == get0(o, "full_fibre_pct")
        gig == get0(o, "gigabit_pct")
        takeup == get0(o, "full_fibre_takeup_pct")
        g4 == get0(o, "indoor_4g_pct")
        g5 == get0(o, "outdoor_5g_pct")
    IN     (IF ff < 50 THEN <<FlagFullFibreBelow50(ff)>>
            ELSE IF ff < 75 THEN <<FlagFullFibreGap(ff)>>
            ELSE <<>>)
        \o when(gig < 50, FlagGigabit(gig))
        \o when(ff > 50 /\ takeup < 25, FlagTakeUp(ff, takeup))
        \o when(g4 < 75, FlagIndoor4G(g4))
        \o when(g5 < 30, Flag5G(g5))

\* lines 231-232 and 246-249: the keyword flags
keyword_flags(p) ==
    LET sector == lower(p.sector)
        notes == lower(p.notes)
    IN     when(any_in(KwFlagLifeSciences, sector, notes), FlagLifeSciences)
        \o when(any_in(KwFlagSensitive, sector, notes), FlagSensitive)

generate_flags(p, o) == threshold_flags(o) \o keyword_flags(p)

\* lines 475 and 725: flags = generate_flags(park, ofcom) if ofcom else []
flags_if_ofcom(p, o) == IF falsy(o) THEN <<>> ELSE generate_flags(p, o)

----------------------------------------------------------------------------
(* What the interactive view and the documents show *)

\* what is shown in place of a score: <<"score", n>> or <<"score", n, rag>>
\* for a number, a one-element tuple for a text

\* lines 730-731: f"{score}/100" if score else "No data"; a score of 0 is
\* falsy
view_metric(score) ==
    IF score # None /\ score[1] # 0 THEN <<"score", score[1]>> ELSE <<"No data">>

\* line 314: f"{score}/100  [{rag}]" if score is not None else "No data"
score_bar_table(score, rag) ==
    IF score # None THEN <<"score", score[1], rag>> ELSE <<"No data">>

\* f"{ofcom.get(k, 0):.1f}%" for each k of fields: the key is in every
\* normalised record, so the default 0 is never used, and formatting None
\* with .1f or .0f raises TypeError
formats(o, fields) == \A k \in fields : dget(o, k) # None

\* the fields formatted with .1f in lines 743-747 and 754-757
ViewFields ==
    {"full_fibre_pct", "gigabit_pct", "superfast_pct", "no_decent_pct",
     "full_fibre_takeup_pct", "indoor_4g_pct", "outdoor_4g_pct",
     "outdoor_5g_pct", "indoor_voice_pct"}

\* the fields formatted with .0f in lines 546-549, 602-603 and 853-854
AreaFields == {"full_fibre_pct", "gigabit_pct", "indoor_4g_pct", "outdoor_5g_pct"}

\* lines 728-761: the metrics, then the connectivity profile
single_park_view(o, cs, ms) ==
    [conn_metric |-> view_metric(cs),
     mob_metric |-> view_metric(ms),
     profile |-> IF falsy(o) THEN "warning"
                 ELSE IF formats(o, ViewFields) THEN "shown"
                 ELSE "TypeError"]

\* lines 372-398: the score bars of build_connectivity_section; the rows of
\* its tables show 'N/A' for an absent field
build_connectivity_section(o) ==
    LET cs == score_connectivity(o)
        ms == score_mobile(o)
    IN  IF falsy(o)
        THEN [conn_bar |-> <<"not available">>, mob_bar |-> <<"not available">>]
        ELSE [conn_bar |-> score_bar_table(cs[1], cs[2]),
              mob_bar |-> IF ms # None
                          THEN score_bar_table(ms,
                                   IF ms[1] >= 70 THEN "Green"
                                   ELSE IF ms[1] >= 40 THEN "Amber" ELSE "Red")
                          ELSE <<"none">>]

\* lines 840-858: the area view for an area of one park
area_view(o) ==
    [conn_metric |-> IF ~falsy(o) THEN <<"score", score_connectivity(o)[1][1]>>
                     ELSE <<"-">>,
     mob_metric |-> <<"-">>,
     profile |-> IF falsy(o) THEN "no match"
                 ELSE IF formats(o, {"full_fibre_pct", "outdoor_5g_pct"}) THEN "shown"
                 ELSE "TypeError"]

\* lines 599-600: the score cells of a park summary in the area document
area_summary(o) ==
    LET cs == score_connectivity(o)
        ms == score_mobile(o)
    IN  [conn_bar |-> IF cs[1] # None THEN <<"score", cs[1][1], cs[2]>>
                      ELSE <<"No Ofcom data">>,
         mob_bar |-> IF ms # None THEN <<"score", ms[1]>> ELSE <<"-">>]

----------------------------------------------------------------------------
(* Specification SpecReport: the single-park report handler, lines 719-794 *)

\* datasets whose keys have at most MaxKeyLen characters in all
ReportDatasets ==
    {[i \in 1..Len(ks) |-> [key |-> ks[i], val |-> EntryAt(i)]] :
        ks \in KeySeqsFrom(<<>>, MaxKeyLen)}

\* parks: any local-authority name, sector none or "genomics research
\* park", tenants none or "120+"
ReportParks ==
    {[local_authority |-> la, sector |-> s, notes |-> <<>>, tenants |-> t] :
        la \in KeyStrings,
        s \in {<<>>, <<"g", "e", "n", "o", "m", "i", "c", "s", " ", "r", "e", "s", "e", "a", "r", "c", "h", " ", "p", "a", "r", "k">>},
        t \in {<<>>, <<"1", "2", "0", "+">>}}

InitReport ==
    /\ ofcom_data \in ReportDatasets
    /\ park \in ReportParks
    /\ companies = <<>>
    /\ ofcom = EmptyDict
    /\ raw = None
    /\ conn_score = None
    /\ conn_rag = "unset"
    /\ mob_score = None
    /\ ops = <<>>
    /\ opp_section = <<>>
    /\ pc = "start"
    /\ InitAux

\* "Generate Intelligence Report" pressed: lines 721-726, the view of lines
\* 728-790, then the document (line 794, generate_park_pdf).  The registry
\* answers with any of the company lists.  An exception in the view ends
\* the handler before the document is built.
GenerateReport ==
    /\ pc = "start"
    /\ \E cs \in CompanyLists :
         LET o == get_ofcom(ofcom_data, park.local_authority)
             found == generate_opportunities(park, o, cs)
             shown == single_park_view(o, score_connectivity(o)[1], score_mobile(o))
             fails == shown.profile = "TypeError"
         IN  /\ ofcom' = o
             /\ companies' = cs
             /\ conn_score' = score_connectivity(o)[1]
             /\ conn_rag' = score_connectivity(o)[2]
             /\ mob_score' = score_mobile(o)
             /\ ops' = found
             /\ flags' = flags_if_ofcom(park, o)
             /\ view' = shown
             /\ raised' = fails
             /\ document' = (IF fails THEN <<>> ELSE build_connectivity_section(o))
             /\ opp_section' = (IF fails THEN <<>> ELSE build_opportunities(found))
    /\ pc' = "done"
    /\ UNCHANGED <<ofcom_data, park, raw>>
    /\ UNCHANGED <<sectors, api_key, response, requests_made>>
    /\ UNCHANGED session

NextReport == GenerateReport

SpecReport == InitReport /\ [][NextReport]_vars

\* the park's local authority matches no key of the dataset
NoKeyMatches == ExactKeys = {} /\ SubstringKeys = {}

Range(s) == {s[i] : i \in 1..Len(s)}

ThresholdOps == {OpFullFibre, OpGigabit, OpMigration, OpIndoor4G, Op5G, OpLastMile}

\* C10: for a park whose local authority matches no key, the connectivity
\* score and the mobile score are absent and the opportunity list is the
\* fallback entry plus exactly the keyword- and scale-triggered entries: no
\* coverage-threshold opportunity comes from the absent coverage data.
C10_NoMatchReport ==
    (pc = "done" /\ NoKeyMatches) =>
        /\ conn_score = None
        /\ mob_score = None
        /\ Range(ops) \cap ThresholdOps = {}
        /\ InList(OpFallback, ops)
        /\ Range(keyword_ops(park)) \cup Range(tenant_ops(park)) \subseteq Range(ops)
        /\ Range(ops) \subseteq
              {OpFallback} \cup Range(keyword_ops(park)) \cup Range(tenant_ops(park))
                 \cup Range(registry_ops(companies))

\* what the code does for such a park: both scores are absent, and the list
\* starts with the four threshold opportunities of 0% coverage, followed by
\* the keyword, registry and tenant-count entries
C10_NoMatchReportOfCode ==
    (pc = "done" /\ NoKeyMatches) =>
        /\ ofcom = EmptyDict
        /\ conn_score = None /\ conn_rag = "No data"
        /\ mob_score = None
        /\ ops = cap8(<<OpFullFibre, OpGigabit, OpIndoor4G, Op5G>>
                      \o keyword_ops(park) \o registry_ops(companies)
                      \o tenant_ops(park))

\* a report for a park with no matching key in a dataset that has keys
C10_ReachNoMatch ==
    /\ pc = "done"
    /\ ofcom_data # <<>>
    /\ NoKeyMatches
    /\ park.sector = <<"g", "e", "n", "o", "m", "i", "c", "s", " ", "r", "e", "s", "e", "a", "r", "c", "h", " ", "p", "a", "r", "k">>

----------------------------------------------------------------------------
(* Specification SpecFlags: the flags and the opportunities of one park,   *)
(* generate_park_pdf lines 475-477                                         *)

\* sector texts: none and one text per keyword case
RuleSectors ==
    {<<>>,
     <<"L", "i", "f", "e", " ", "S", "c", "i", "e", "n", "c", "e">>,
     <<"E", "n", "e", "r", "g", "y">>,
     <<"G", "e", "n", "o", "m", "i", "c", "s">>,
     <<"C", "l", "i", "n", "i", "c", "a", "l">>,
     <<"S", "p", "a", "c", "e">>,
     <<"C", "o", "m", "p", "u", "t", "i", "n", "g">>,
     <<"R", "a", "i", "l">>}

RuleParks ==
    {[local_authority |-> <<>>, sector |-> s, notes |-> n, tenants |-> <<>>,
      status |-> st] :
        s \in RuleSectors,
        \* notes: none, "Spinout"
        n \in {<<>>, <<"S", "p", "i", "n", "o", "u", "t">>},
        \* status texts: none, "Incubator"
        st \in {<<>>, <<"I", "n", "c", "u", "b", "a", "t", "o", "r">>}}

\* area records around the thresholds of lines 187-196 and 234-245
RuleRecords ==
    {[AllNone EXCEPT !["full_fibre_pct"] = a, !["gigabit_pct"] = b,
                     !["full_fibre_takeup_pct"] = c, !["no_decent_pct"] = d,
                     !["indoor_4g_pct"] = e, !["outdoor_5g_pct"] = f] :
        a \in {None, Some(49), Some(50), Some(51), Some(59), Some(60),
               Some(61), Some(74), Some(75)},
        b \in {Some(49), Some(50)},
        c \in {Some(24), Some(27), Some(30)},
        d \in {Some(2), Some(5)},
        e \in {Some(74), Some(77), Some(80)},
        f \in {Some(29), Some(35), Some(40)}}

InitFlags ==
    /\ ofcom \in {EmptyDict} \cup RuleRecords
    /\ park \in RuleParks
    /\ companies = <<>>
    /\ ofcom_data = <<>>
    /\ raw = None
    /\ conn_score = None
    /\ conn_rag = "unset"
    /\ mob_score = None
    /\ ops = <<>>
    /\ opp_section = <<>>
    /\ pc = "start"
    /\ InitAux

\* lines 475-477: the flags, the opportunities and the intelligence section
GenerateFlagsAndOpportunities ==
    /\ pc = "start"
    /\ flags' = flags_if_ofcom(park, ofcom)
    /\ ops' = generate_opportunities(park, ofcom, companies)
    /\ opp_section' = build_opportunities(ops')
    /\ pc' = "done"
    /\ UNCHANGED <<ofcom_data, park, companies, raw, ofcom, conn_score,
                   conn_rag, mob_score>>
    /\ UNCHANGED <<sectors, api_key, response, requests_made, view, document,
                   raised>>
    /\ UNCHANGED session

NextFlags == GenerateFlagsAndOpportunities

SpecFlags == InitFlags /\ [][NextFlags]_vars

\* a flag with this title is in the list
HasFlag(title) == \E i \in 1..Len(flags) : flags[i][1] = title

HasFullFibreFlag ==
    HasFlag("Full fibre below 50%") \/ HasFlag("Full fibre availability gap")

\* the five threshold rules that generate_opportunities has: the flag and
\* the opportunity of each are emitted together, on the claimed condition
FiveRulesMatch ==
    /\ HasFullFibreFlag <=> InList(OpFullFibre, ops)
    /\ InList(OpFullFibre, ops) <=> val0(ofcom, "full_fibre_pct") < 60
    /\ HasFlag("Gigabit coverage insufficient") <=> InList(OpGigabit, ops)
    /\ InList(OpGigabit, ops) <=> val0(ofcom, "gigabit_pct") < 50
    /\ HasFlag("Take-up gap identified") <=> InList(OpMigration, ops)
    /\ InList(OpMigration, ops) <=>
          (val0(ofcom, "full_fibre_pct") > 60
              /\ val0(ofcom, "full_fibre_takeup_pct") < 30)
    /\ HasFlag("Indoor 4G below threshold") <=> InList(OpIndoor4G, ops)
    /\ InList(OpIndoor4G, ops) <=> val0(ofcom, "indoor_4g_pct") < 80
    /\ HasFlag("5G readiness low") <=> InList(Op5G, ops)
    /\ InList(Op5G, ops) <=> val0(ofcom, "outdoor_5g_pct") < 40

\* C11: for each threshold rule the flag is emitted exactly when the
\* opportunity is, on the same condition of the same record: full-fibre < 60,
\* gigabit < 50, full-fibre > 60 with take-up < 30, no-decent-broadband > 2,
\* indoor 4G < 80, outdoor 5G < 40.
C11_FlagsMatchOpportunities ==
    (pc = "done" /\ ~falsy(ofcom)) =>
        /\ FiveRulesMatch
        /\ HasFlag("No decent broadband") <=> InList(OpLastMile, ops)
        /\ InList(OpLastMile, ops) <=> val0(ofcom, "no_decent_pct") > 2

\* C11 without the last-mile rule, which the code lacks altogether: the
\* other five rules do not match either
C11_FiveRulesMatch ==
    (pc = "done" /\ ~falsy(ofcom)) => FiveRulesMatch

\* what the code does: the flags have thresholds of their own (50 and 75 for
\* full fibre, 50 for gigabit, full fibre > 50 with take-up < 25, 75 for
\* indoor 4G, 30 for outdoor 5G)
C11_FlagThresholdsOfCode ==
    (pc = "done" /\ ~falsy(ofcom)) =>
        LET ff == val0(ofcom, "full_fibre_pct")
        IN  /\ HasFlag("Full fibre below 50%") <=> ff < 50
            /\ HasFlag("Full fibre availability gap") <=> (ff >= 50 /\ ff < 75)
            /\ HasFlag("Gigabit coverage insufficient") <=>
                  val0(ofcom, "gigabit_pct") < 50
            /\ HasFlag("Take-up gap identified") <=>
                  (ff > 50 /\ val0(ofcom, "full_fibre_takeup_pct") < 25)
            /\ HasFlag("Indoor 4G below threshold") <=>
                  val0(ofcom, "indoor_4g_pct") < 75
            /\ HasFlag("5G readiness low") <=> val0(ofcom, "outdoor_5g_pct") < 30
            /\ ~HasFlag("No decent broadband")

\* a record with full fibre at 65: a flag and no opportunity
C11_ReachFlagWithoutOpportunity ==
    /\ pc = "done"
    /\ ~falsy(ofcom)
    /\ HasFullFibreFlag
    /\ ~InList(OpFullFibre, ops)


\* the keyword groups as the claim lists them
ClaimLifeSciences ==
    <<<<"g", "e", "n", "o", "m", "i", "c", "s">>, <<"b", "i", "o", "m", "e", "d", "i", "c", "a", "l">>, <<"l", "i", "f", "e", " ", "s", "c", "i", "e", "n", "c", "e">>, <<"s", "e", "q", "u", "e", "n", "c", "i", "n", "g">>,
      <<"c", "l", "i", "n", "i", "c", "a", "l">>>>
ClaimSensitive ==
    <<<<"s", "p", "a", "c", "e">>, <<"e", "n", "e", "r", "g", "y">>, <<"d", "e", "f", "e", "n", "c", "e">>, <<"n", "u", "c", "l", "e", "a", "r">>, <<"f", "u", "s", "i", "o", "n">>, <<"i", "t", "a", "r">>>>
ClaimEarlyStage ==
    <<<<"i", "n", "c", "u", "b", "a", "t", "o", "r">>, <<"e", "a", "r", "l", "y", "-", "s", "t", "a", "g", "e">>, <<"s", "p", "i", "n", "o", "u", "t">>, <<"a", "c", "c", "e", "l", "e", "r", "a", "t", "o", "r">>>>
ClaimCompute ==
    <<<<"a", "i">>, <<"g", "p", "u">>, <<"h", "p", "c">>, <<"d", "e", "e", "p", " ", "t", "e", "c", "h">>>>

\* a keyword of the group occurs in the park's sector, notes or status text
GroupPresent(kws) ==
    \E i \in 1..Len(kws) :
        \/ Contains(lower(park.sector), kws[i])
        \/ Contains(lower(park.notes), kws[i])
        \/ Contains(lower(park.status), kws[i])

\* C12: for each keyword group, the group's opportunity and/or flag is
\* appended exactly when a keyword of the group occurs, case-insensitively,
\* in the park's sector, notes or status text, whatever the coverage values.
C12_KeywordGroups ==
    pc = "done" =>
        /\ GroupPresent(ClaimLifeSciences) <=>
              (InList(OpGenomics, ops) \/ HasFlag("Life sciences data intensity"))
        /\ GroupPresent(ClaimSensitive) <=>
              (InList(OpSecure, ops) \/ HasFlag("Sensitive sector - elevated security"))
        /\ GroupPresent(ClaimEarlyStage) <=> InList(OpStartup, ops)
        /\ GroupPresent(ClaimCompute) <=> InList(OpCompute, ops)

\* what the code does: each opportunity is appended exactly when a keyword
\* of the code's own list occurs in the lower-cased sector or notes, whatever
\* the coverage values; the status text is not searched
C12_KeywordGroupsOfCode ==
    pc = "done" =>
        LET sector == lower(park.sector)
            notes == lower(park.notes)
        IN  /\ InList(OpGenomics, ops) <=> any_in(KwGenomics, sector, notes)
            /\ InList(OpSecure, ops) <=> any_in(KwSecure, sector, notes)
            /\ InList(OpStartup, ops) <=> any_in(KwStartup, sector, notes)
            /\ InList(OpResilience, ops) <=> any_in(KwResilience, sector, notes)
            /\ InList(OpCompute, ops) <=> any_in(KwCompute, sector, notes)
            /\ InList(OpCompliance, ops) <=> any_in(KwCompliance, sector, notes)
            /\ ~falsy(ofcom) =>
                  /\ HasFlag("Life sciences data intensity") <=>
                        any_in(KwFlagLifeSciences, sector, notes)
                  /\ HasFlag("Sensitive sector - elevated security") <=>
                        any_in(KwFlagSensitive, sector, notes)

\* a park whose sector is "Life Science": no life-sciences entry
C12_ReachLifeScience ==
    /\ pc = "done"
    /\ park.sector = <<"L", "i", "f", "e", " ", "S", "c", "i", "e", "n", "c", "e">>
    /\ ~InList(OpGenomics, ops)
    /\ ~HasFlag("Life sciences data intensity")

\* a park whose status is "Incubator": no early-stage entry
C12_ReachStatusOnly ==
    /\ pc = "done"
    /\ park.status = <<"I", "n", "c", "u", "b", "a", "t", "o", "r">>
    /\ park.notes = <<>>
    /\ ~InList(OpStartup, ops)

\* a park whose sector is "Energy": the resilience opportunity, and neither
\* the secure-network opportunity nor the sensitive-sector flag
C12_ReachEnergy ==
    /\ pc = "done"
    /\ park.sector = <<"E", "n", "e", "r", "g", "y">>
    /\ InList(OpResilience, ops)
    /\ ~InList(OpSecure, ops)
    /\ ~HasFlag("Sensitive sector - elevated security")


----------------------------------------------------------------------------
(* Specification SpecScale: generate_opportunities on parks of every scale *)

\* tenants texts: none, "50", "100", "101", "120+", "1,200", "c. 150",
\* "50 in 3", "+300", "many"
ScaleTenants ==
    {<<>>,
     <<"5", "0">>,
     <<"1", "0", "0">>,
     <<"1", "0", "1">>,
     <<"1", "2", "0", "+">>,
     <<"1", ",", "2", "0", "0">>,
     <<"c", ".", " ", "1", "5", "0">>,
     <<"5", "0", " ", "i", "n", " ", "3">>,
     <<"+", "3", "0", "0">>,
     <<"m", "a", "n", "y">>}

ScaleParks ==
    {[local_authority |-> <<>>, sector |-> <<>>, notes |-> <<>>,
      tenants |-> t, size_sq_ft |-> z] :
        t \in ScaleTenants,
        \* the floor area in sq ft, a catalog field that the code never reads
        z \in {None, Some(400000), Some(600000)}}

ScaleRecords ==
    {[AllNone EXCEPT !["full_fibre_pct"] = a, !["gigabit_pct"] = Some(50),
                     !["full_fibre_takeup_pct"] = Some(30),
                     !["indoor_4g_pct"] = Some(80),
                     !["outdoor_5g_pct"] = f] :
        a \in {Some(45), Some(61)}, f \in {Some(20), Some(40)}}

InitScale ==
    /\ ofcom \in {EmptyDict} \cup ScaleRecords
    /\ park \in ScaleParks
    /\ companies \in CompanyLists
    /\ ofcom_data = <<>>
    /\ raw = None
    /\ conn_score = None
    /\ conn_rag = "unset"
    /\ mob_score = None
    /\ ops = <<>>
    /\ opp_section = <<>>
    /\ pc = "start"
    /\ InitAux

SpecScale == InitScale /\ [][NextOps]_vars

\* the digits at the start of s
RECURSIVE LeadingDigits(_)
LeadingDigits(s) ==
    IF s # <<>> /\ isdigit(Head(s)) THEN <<Head(s)>> \o LeadingDigits(Tail(s))
    ELSE <<>>

\* the first run of consecutive digits of s
RECURSIVE FirstDigitRun(_)
FirstDigitRun(s) ==
    IF s = <<>> THEN <<>>
    ELSE IF isdigit(Head(s)) THEN LeadingDigits(s)
    ELSE FirstDigitRun(Tail(s))

\* the tenant count of the claim: the first run of digits before any "+" or
\* ","; None when there is none
ClaimTenantCount(tenants) ==
    LET run == FirstDigitRun(before(before(tenants, "+"), ","))
    IN  IF run = <<>> THEN None ELSE Some(int_of(run))

ClaimScaleRule(p) ==
    \/ (p.size_sq_ft # None /\ p.size_sq_ft[1] > 500000)
    \/ (ClaimTenantCount(p.tenants) # None /\ ClaimTenantCount(p.tenants)[1] > 100)

\* C13: the campus-scale-network opportunity is appended exactly when the
\* park's size exceeds 500,000 sq ft or the parsed tenant count exceeds 100,
\* the tenant count being the first run of consecutive digits before any
\* "+" or "," of the tenants text; without such digits the rule does not
\* fire and nothing is raised.
C13_ScaleRule ==
    pc # "start" =>
        /\ InList(OpCampusScale, ops) <=> ClaimScaleRule(park)
        /\ raised = FALSE

\* C13 for the tenant count alone, leaving the size out
C13_TenantCountRule ==
    pc # "start" =>
        (InList(OpCampusScale, ops) <=>
            (ClaimTenantCount(park.tenants) # None
                /\ ClaimTenantCount(park.tenants)[1] > 100))

\* what the code does: there is no size rule, and the tenant count is the
\* number formed by all the digits before the first "+" and the first ","
C13_ScaleRuleOfCode ==
    pc # "start" =>
        /\ InList(OpCampusScale, ops) <=>
              LET digits == filter_digits(before(before(park.tenants, "+"), ","))
              IN  digits # <<>> /\ int_of(digits) > 100
        /\ raised = FALSE

\* a park of 600,000 sq ft with 50 tenants: no campus-scale opportunity
C13_ReachLargeSite ==
    /\ pc = "done"
    /\ park.size_sq_ft = Some(600000)
    /\ park.tenants = <<"5", "0">>
    /\ ~InList(OpCampusScale, ops)

\* tenants "50 in 3": the code reads 503 and appends the opportunity
C13_ReachJoinedDigits ==
    /\ pc = "done"
    /\ park.tenants = <<"5", "0", " ", "i", "n", " ", "3">>
    /\ InList(OpCampusScale, ops)


----------------------------------------------------------------------------
(* The order and the length of the lists *)

KeywordEntries ==
    {OpGenomics, OpSecure, OpStartup, OpResilience, OpCompute, OpCompliance}

\* the place of an entry in the order of the claim: threshold, keyword,
\* scale, registry, fallback
ClaimRank(op) ==
    IF op \in ThresholdOps THEN 1
    ELSE IF op \in KeywordEntries THEN 2
    ELSE IF op = OpCampusScale THEN 3
    ELSE IF op = OpFallback THEN 5
    ELSE 4

\* the place of an entry in the order of the code: threshold, keyword,
\* registry, tenant count
CodeRank(op) ==
    IF op \in ThresholdOps THEN 1
    ELSE IF op \in KeywordEntries THEN 2
    ELSE IF op = OpCampusScale THEN 4
    ELSE 3

\* C14: the opportunities appear in rule-evaluation order: threshold
\* entries, then keyword entries, then the scale entry, then the registry
\* entry, then the fallback; when both the scale rule and the registry rule
\* fire, the scale entry precedes the registry entry.
C14_RuleOrder ==
    pc # "start" =>
        \A i, j \in 1..Len(ops) : i < j => ClaimRank(ops[i]) <= ClaimRank(ops[j])

\* what the code does: threshold entries, keyword entries, the registry
\* entry, then the tenant-count entry
C14_RuleOrderOfCode ==
    pc # "start" =>
        \A i, j \in 1..Len(ops) : i < j => CodeRank(ops[i]) <= CodeRank(ops[j])

\* twenty active companies and 120+ tenants: the registry entry comes first
C14_ReachBoth ==
    /\ pc = "done"
    /\ \E i, j \in 1..Len(ops) :
          /\ i < j
          /\ ops[i] = OpRegistry(20)
          /\ ops[j] = OpCampusScale


----------------------------------------------------------------------------
(* Specification SpecCap: parks on which many rules fire at once *)

CapParks ==
    {[local_authority |-> <<>>, sector |-> s, notes |-> n, tenants |-> t] :
        \* sector texts: none, "Genomics", "Space AI", and one text with a
        \* keyword of each of the six groups
        s \in {<<>>,
              <<"G", "e", "n", "o", "m", "i", "c", "s">>,
              <<"S", "p", "a", "c", "e", " ", "A", "I">>,
              <<"G", "e", "n", "o", "m", "i", "c", "s", " ", "s", "p", "a",
               "c", "e", " ", "i", "n", "c", "u", "b", "a", "t", "o", "r",
               " ", "f", "u", "s", "i", "o", "n", " ", "A", "I", " ", "p",
               "h", "a", "r", "m", "a">>},
        n \in NotesTexts,
        t \in {<<>>, <<"1", "2", "0", "+">>}}

CapRecords ==
    {[AllNone EXCEPT !["full_fibre_pct"] = a, !["gigabit_pct"] = b,
                     !["full_fibre_takeup_pct"] = c,
                     !["indoor_4g_pct"] = e, !["outdoor_5g_pct"] = f] :
        a \in {Some(45), Some(60), Some(61)},
        b \in {Some(35), Some(50)},
        c \in {Some(10), Some(30)},
        e \in {Some(60), Some(80)},
        f \in {Some(20), Some(40)}}

InitCap ==
    /\ ofcom \in {EmptyDict} \cup CapRecords
    /\ park \in CapParks
    /\ companies \in CompanyLists
    /\ ofcom_data = <<>>
    /\ raw = None
    /\ conn_score = None
    /\ conn_rag = "unset"
    /\ mob_score = None
    /\ ops = <<>>
    /\ opp_section = <<>>
    /\ pc = "start"
    /\ InitAux

SpecCap == InitCap /\ [][NextFlags]_vars

\* the rule output before the cap
Uncapped ==
    threshold_ops(ofcom) \o keyword_ops(park) \o registry_ops(companies)
        \o tenant_ops(park)

NoDuplicates(s) == \A i, j \in 1..Len(s) : s[i] = s[j] => i = j

\* the number of flag rules whose condition holds on the record and the park
FlagRulesFiring ==
    LET ff == val0(ofcom, "full_fibre_pct")
        n(cond) == IF cond THEN 1 ELSE 0
    IN    n(ff < 75)
        + n(val0(ofcom, "gigabit_pct") < 50)
        + n(ff > 50 /\ val0(ofcom, "full_fibre_takeup_pct") < 25)
        + n(val0(ofcom, "indoor_4g_pct") < 75)
        + n(val0(ofcom, "outdoor_5g_pct") < 30)
        + n(any_in(KwFlagLifeSciences, lower(park.sector), lower(park.notes)))
        + n(any_in(KwFlagSensitive, lower(park.sector), lower(park.notes)))

\* C15: the list of generate_opportunities has at most 8 entries, holds no
\* string twice and is the first 8 entries of the uncapped rule output;
\* the list of generate_flags is never truncated.
C15_CapAndNoDuplicates ==
    pc = "done" =>
        /\ Len(ops) <= 8
        /\ NoDuplicates(ops)
        /\ Len(ops) = Min(8, Len(Uncapped))
        /\ \A i \in 1..Len(ops) : ops[i] = Uncapped[i]
        /\ ~falsy(ofcom) => Len(flags) = FlagRulesFiring

\* twelve rules fire, eight entries are kept, and seven flags are listed
C15_Witness ==
    /\ pc = "done"
    /\ Len(Uncapped) = 12
    /\ Len(ops) = 8
    /\ ops[8] = OpResilience
    /\ Len(flags) = 7


----------------------------------------------------------------------------
(* Specification SpecClassify: classify_companies on registry results *)

\* a registry result has at most MaxCompanies companies in the model
MaxCompanies == 2

Companies ==
    {[company_status |-> st, sic_codes |-> sics] :
        \* status texts: none, "active", "Active", "dissolved"
        st \in {<<>>, <<"a", "c", "t", "i", "v", "e">>,
               <<"A", "c", "t", "i", "v", "e">>,
               <<"d", "i", "s", "s", "o", "l", "v", "e", "d">>},
        \* industry-code lists: none, "72110", "72", "abc" then "62",
        \* "62012" then "86300", "35110"
        sics \in {<<>>,
                 <<<<"7", "2", "1", "1", "0">>>>,
                 <<<<"7", "2">>>>,
                 <<<<"a", "b", "c">>, <<"6", "2">>>>,
                 <<<<"6", "2", "0", "1", "2">>, <<"8", "6", "3", "0", "0">>>>,
                 <<<<"3", "5", "1", "1", "0">>>>}}

SeqsUpTo(S, n) == UNION {[1..k -> S] : k \in 0..n}

InitClassify ==
    /\ companies \in SeqsUpTo(Companies, MaxCompanies)
    /\ ofcom = EmptyDict
    /\ park = NoPark
    /\ ofcom_data = <<>>
    /\ raw = None
    /\ conn_score = None
    /\ conn_rag = "unset"
    /\ mob_score = None
    /\ ops = <<>>
    /\ opp_section = <<>>
    /\ pc = "start"
    /\ InitAux

\* line 418: sectors = classify_companies(companies)
ClassifyCompanies ==
    /\ pc = "start"
    /\ sectors' = classify_companies(companies)
    /\ pc' = "done"
    /\ UNCHANGED <<ofcom_data, park, companies, raw, ofcom, conn_score,
                   conn_rag, mob_score, ops, opp_section>>
    /\ UNCHANGED <<flags, api_key, response, requests_made, view, document,
                   raised>>
    /\ UNCHANGED session

NextClassify == ClassifyCompanies

SpecClassify == InitClassify /\ [][NextClassify]_vars

\* the decimal digits of a positive number
RECURSIVE DigitsOf(_)
DigitsOf(n) ==
    IF n < 10 THEN <<Digits[n + 1]>>
    ELSE DigitsOf(n \div 10) \o <<Digits[(n % 10) + 1]>>

IsPrefix(s, t) == Len(s) <= Len(t) /\ SubSeq(t, 1, Len(s)) = s

IsNumeric(s) == s # <<>> /\ \A i \in 1..Len(s) : isdigit(s[i])

IsActive(co) == lower(co.company_status) = ACTIVE

\* the positions <<company, code>> of the registry result
CodePositions ==
    UNION {{<<i, j>> : j \in 1..Len(companies[i].sic_codes)} :
              i \in 1..Len(companies)}

\* the (company, code) pairs of the claim: an active company and a numeric
\* industry code of which a listed code is a prefix
ClaimHits(codes) ==
    {pos \in CodePositions :
        /\ IsActive(companies[pos[1]])
        /\ IsNumeric(companies[pos[1]].sic_codes[pos[2]])
        /\ \E c \in codes :
              IsPrefix(DigitsOf(c), companies[pos[1]].sic_codes[pos[2]])}

\* the (company, code) pairs of the code: the first four characters of the
\* industry code are a number that is in the list
CodeHits(codes) ==
    {pos \in CodePositions :
        /\ IsActive(companies[pos[1]])
        /\ LET sic == companies[pos[1]].sic_codes[pos[2]]
               head4 == SubSeq(sic, 1, Min(4, Len(sic)))
           IN  IsNumeric(head4) /\ int_of(head4) \in codes}

InOrderOfMap(result) ==
    \A a, b \in 1..Len(result) : a < b =>
        \E i, j \in 1..Len(sector_map) :
            i < j /\ sector_map[i][1] = result[a][1] /\ sector_map[j][1] = result[b][1]

\* C16: a sector's count is incremented for an industry code of an active
\* company exactly when a listed code of the sector is a numeric prefix of
\* that code (72110 counts for 72, 62012 for 62); a non-numeric code is
\* skipped without stopping the remaining codes; the result holds exactly the
\* sectors with count > 0, in the order of the fixed mapping.
C16_PrefixCounts ==
    pc = "done" =>
        /\ \A i \in 1..Len(sector_map) :
              LET n == Cardinality(ClaimHits(sector_map[i][2]))
              IN  (n > 0) <=> InList(<<sector_map[i][1], n>>, sectors)
        /\ \A a \in 1..Len(sectors) : sectors[a][2] > 0
        /\ InOrderOfMap(sectors)

\* what the code does: a code counts only when the number written by its
\* first four characters is itself a listed code
C16_ExactCountsOfCode ==
    pc = "done" =>
        /\ \A i \in 1..Len(sector_map) :
              LET n == Cardinality(CodeHits(sector_map[i][2]))
              IN  (n > 0) <=> InList(<<sector_map[i][1], n>>, sectors)
        /\ \A a \in 1..Len(sectors) : sectors[a][2] > 0
        /\ InOrderOfMap(sectors)

\* one active company with the code 72110: no sector at all
C16_Reach72110 ==
    /\ pc = "done"
    /\ companies = <<[company_status |-> <<"a", "c", "t", "i", "v", "e">>, sic_codes |-> <<<<"7", "2", "1", "1", "0">>>>]>>
    /\ sectors = <<>>

\* "abc" is skipped and the "62" after it is counted
C16_ReachSkipped ==
    /\ pc = "done"
    /\ Len(companies) = 1
    /\ companies[1].sic_codes = <<<<"a", "b", "c">>, <<"6", "2">>>>
    /\ sectors = <<<<"Software & IT", 1>>>>

\* C17: a company whose status is not "active", compared case-insensitively,
\* adds nothing to any sector count: removing all non-active companies from
\* the list leaves the result unchanged.
C17_NonActiveIgnored ==
    pc = "done" => sectors = classify_companies(SelectSeq(companies, IsActive))

\* a dissolved company with a counted code next to an active company with a
\* counted code
C17_Witness ==
    /\ pc = "done"
    /\ Len(companies) = 2
    /\ companies[1] = [company_status |-> <<"d", "i", "s", "s", "o", "l", "v", "e", "d">>, sic_codes |-> <<<<"7", "2">>>>]
    /\ companies[2] = [company_status |-> <<"A", "c", "t", "i", "v", "e">>, sic_codes |-> <<<<"a", "b", "c">>, <<"6", "2">>>>]
    /\ sectors = <<<<"Software & IT", 1>>>>


----------------------------------------------------------------------------
(* Specification SpecCompanies: one call of get_companies *)

\* what the registry does with the request: the request raises (time-out
\* after 8 seconds, connection error), or a response arrives whose body is a
\* JSON object with items, a JSON object without items, a JSON list, or not
\* JSON
Responses ==
    {[kind |-> "raise", error |-> e] : e \in {"Timeout", "ConnectionError"}}
    \cup {[kind |-> "response", status_code |-> st, body |-> "items", items |-> it] :
            st \in {200, 404, 429, 500}, it \in CompanyLists}
    \cup {[kind |-> "response", status_code |-> st, body |-> b, items |-> <<>>] :
            st \in {200, 404, 429, 500}, b \in {"no_items", "list", "invalid"}}

InitCompanies ==
    /\ response \in Responses
    \* the credential: none, or "key"
    /\ api_key \in {<<>>, <<"k", "e", "y">>}
    /\ park \in {[local_authority |-> <<>>, sector |-> <<>>, notes |-> <<>>,
                  tenants |-> <<>>, postcode |-> p] :
                    \* the postcode of the park: none, or "CB4 0WS"
                    p \in {<<>>, <<"C", "B", "4", " ", "0", "W", "S">>}}
    /\ companies = <<>>
    /\ ofcom = EmptyDict
    /\ ofcom_data = <<>>
    /\ raw = None
    /\ conn_score = None
    /\ conn_rag = "unset"
    /\ mob_score = None
    /\ ops = <<>>
    /\ opp_section = <<>>
    /\ pc = "start"
    /\ flags = <<>>
    /\ sectors = <<>>
    /\ requests_made = 0
    /\ view = <<>>
    /\ document = <<>>
    /\ raised = FALSE
    /\ InHandlerRun

\* line 722: companies = get_companies(park.get("postcode", ""), ch_api_key)
\* if ch_api_key else []
GetCompanies ==
    /\ pc = "start"
    /\ LET got == get_companies(park.postcode, api_key, response)
       IN  /\ companies' = (IF api_key = <<>> THEN <<>> ELSE got.items)
           /\ requests_made' =
                 requests_made + (IF api_key = <<>> THEN 0 ELSE got.requests)
           /\ raised' = (api_key # <<>> /\ got.raises)
    /\ pc' = "done"
    /\ UNCHANGED <<ofcom_data, park, raw, ofcom, conn_score, conn_rag,
                   mob_score, ops, opp_section>>
    /\ UNCHANGED <<flags, sectors, api_key, response, view, document>>
    /\ UNCHANGED session

NextCompanies == GetCompanies

SpecCompanies == InitCompanies /\ [][NextCompanies]_vars

\* C19: get_companies never propagates an error: it returns the empty list
\* when the credential or the postcode is missing, without making a request,
\* when the request times out or raises, and when the response status is
\* not 200; it returns the item list of the response only on a 200
\* response, and it makes at most one request per call.
C19_NoErrorOneRequest ==
    pc = "done" =>
        /\ raised = FALSE
        /\ requests_made <= 1
        /\ (api_key = <<>> \/ park.postcode = <<>>) =>
              (companies = <<>> /\ requests_made = 0)
        /\ (api_key # <<>> /\ park.postcode # <<>>) => requests_made = 1
        /\ response.kind = "raise" => companies = <<>>
        /\ (response.kind = "response" /\ response.status_code # 200) =>
              companies = <<>>
        /\ companies # <<>> =>
              /\ response.kind = "response"
              /\ response.status_code = 200
              /\ companies = response.items
        /\ (api_key # <<>> /\ park.postcode # <<>> /\ response.kind = "response"
               /\ response.status_code = 200 /\ response.body = "items") =>
              companies = response.items

\* a 200 response with twenty items, returned after one request
C19_Witness ==
    /\ pc = "done"
    /\ response.kind = "response"
    /\ response.status_code = 200
    /\ Len(response.items) = 20
    /\ companies = response.items
    /\ requests_made = 1
    /\ raised = FALSE

\* a time-out, a 404 response with items and a body that is not JSON
C19_ReachTimeout ==
    /\ pc = "done" /\ requests_made = 1 /\ companies = <<>>
    /\ response.kind = "raise" /\ response.error = "Timeout"
C19_ReachNot200 ==
    /\ pc = "done" /\ requests_made = 1 /\ companies = <<>>
    /\ response.kind = "response" /\ response.status_code = 404
    /\ response.items # <<>>
C19_ReachInvalidBody ==
    /\ pc = "done" /\ requests_made = 1 /\ companies = <<>>
    /\ response.kind = "response" /\ response.status_code = 200
    /\ response.body = "invalid"


----------------------------------------------------------------------------
(* Specification SpecRender: the single-park report and the area report of *)
(* one park, on area entries with any of the ten fields absent             *)

RenderConn ==
    {[full_fibre_pct |-> a, gigabit_pct |-> b, superfast_pct |-> c,
      no_decent_pct |-> d, ff_takeup_pct |-> e, avg_data_usage_gb |-> f] :
        a \in {None, Some(0), Some(50)},
        b \in {None, Some(0), Some(50)},
        c \in {None, Some(0)},
        d \in {None, Some(10)},
        e \in {None, Some(20)},
        f \in {None, Some(300)}}

RenderMob ==
    {[indoor_4g_all_operators_pct |-> a, outdoor_4g_all_operators_pct |-> b,
      outdoor_5g_all_operators_pct |-> c, indoor_voice_all_operators_pct |-> d] :
        a \in {None, Some(0), Some(90)},
        b \in {None, Some(90)},
        c \in {None, Some(0), Some(90)},
        d \in {None, Some(0)}}

\* the dataset has the one key "a"; the park names it or names nothing
InitRender ==
    /\ ofcom_data \in
         {<<[key |-> <<"a">>, val |-> e]>> :
            e \in {EmptyDict}
                   \cup {("connectivity" :> c) @@ ("mobile" :> m) :
                            c \in RenderConn, m \in RenderMob}}
    /\ park \in {[local_authority |-> la, sector |-> <<>>, notes |-> <<>>,
                  tenants |-> <<>>] : la \in {<<>>, <<"a">>}}
    /\ companies = <<>>
    /\ ofcom = EmptyDict
    /\ raw = None
    /\ conn_score = None
    /\ conn_rag = "unset"
    /\ mob_score = None
    /\ ops = <<>>
    /\ opp_section = <<>>
    /\ pc = "start"
    /\ InitAux

\* "Generate Area Report" pressed for an area of this one park: lines
\* 828-834, the view of lines 836-884, then generate_area_pdf (line 889).
\* An exception ends the handler before the document is returned.
GenerateAreaReport ==
    /\ pc \in {"start", "area_selected"}
    /\ LET la == park.local_authority
           o == IF la # <<>> THEN get_ofcom(ofcom_data, la) ELSE EmptyDict
           shown == area_view(o)
           fails == ~falsy(o) /\ ~formats(o, AreaFields)
       IN  /\ ofcom' = o
           /\ conn_score' = score_connectivity(o)[1]
           /\ conn_rag' = score_connectivity(o)[2]
           /\ mob_score' = score_mobile(o)
           /\ flags' = flags_if_ofcom(park, o)
           /\ ops' = generate_opportunities(park, o, <<>>)
           /\ view' = shown
           /\ raised' = fails
           /\ document' = (IF fails THEN <<>> ELSE area_summary(o))
    /\ pc' = "area_done"
    /\ UNCHANGED <<ofcom_data, park, companies, raw, opp_section>>
    /\ UNCHANGED <<sectors, api_key, response, requests_made>>
    /\ UNCHANGED session

NextRender == GenerateReport \/ GenerateAreaReport

SpecRender == InitRender /\ [][NextRender]_vars

\* some of the ten fields of the record are absent
Partial(o) == \E k \in CanonicalFields : o[k] = None

\* C18: no missing or partial input aborts report generation: for every park
\* and every area record that normalises to a non-empty canonical record,
\* records with absent fields included, the single-park report and the area
\* report run to completion without raising.
C18_NoAbort ==
    (pc \in {"done", "area_done"} /\ ~falsy(ofcom)) => raised = FALSE

\* what the code does: the single-park view raises when one of the nine
\* percentages is absent, the area report when full fibre, gigabit, indoor
\* 4G or outdoor 5G is absent; a park without a record never raises
C18_AbortOfCode ==
    /\ pc = "done" =>
          (raised <=> (~falsy(ofcom) /\ \E k \in ViewFields : ofcom[k] = None))
    /\ pc = "area_done" =>
          (raised <=> (~falsy(ofcom) /\ \E k \in AreaFields : ofcom[k] = None))

\* a record that lacks only the gigabit figure: the single-park report
\* raises, and so does the area report
C18_ReachParkAbort ==
    /\ pc = "done"
    /\ ~falsy(ofcom)
    /\ ofcom.gigabit_pct = None
    /\ \A k \in CanonicalFields \ {"gigabit_pct"} : ofcom[k] # None
    /\ raised
C18_ReachAreaAbort ==
    /\ pc = "area_done"
    /\ ~falsy(ofcom)
    /\ ofcom.gigabit_pct = None
    /\ \A k \in CanonicalFields \ {"gigabit_pct"} : ofcom[k] # None
    /\ raised

\* the number shown, None for a text
ShownScore(cell) == IF cell[1] = "score" THEN Some(cell[2]) ELSE None

\* C20: the single-park view and the single-park document show the same
\* scores: each shows the numeric connectivity score and the numeric mobile
\* score whenever that score is present, a score of 0 included, and shows
\* "No data" for a score only when that score is absent.
C20_ViewMatchesDocument ==
    (pc = "done" /\ ~raised) =>
        /\ ShownScore(view.conn_metric) = conn_score
        /\ ShownScore(view.mob_metric) = mob_score
        /\ ShownScore(document.conn_bar) = conn_score
        /\ ShownScore(document.mob_bar) = mob_score

\* what the code does: the document shows every score that is present; the
\* view shows "No data" for an absent score and for a score of 0
C20_ViewMatchesDocumentOfCode ==
    (pc = "done" /\ ~raised) =>
        /\ ShownScore(document.conn_bar) = conn_score
        /\ ShownScore(document.mob_bar) = mob_score
        /\ ShownScore(view.conn_metric) =
              (IF conn_score = Some(0) THEN None ELSE conn_score)
        /\ ShownScore(view.mob_metric) =
              (IF mob_score = Some(0) THEN None ELSE mob_score)

\* a complete record with a connectivity score of 0: "No data" in the view,
\* 0/100 in the document
C20_ReachZeroScore ==
    /\ pc = "done"
    /\ ~raised
    /\ ~falsy(ofcom)
    /\ ~Partial(ofcom)
    /\ conn_score = Some(0)
    /\ view.conn_metric = <<"No data">>
    /\ document.conn_bar = <<"score", 0, "Red">>

\* a complete record with a mobile score of 0
C20_ReachZeroMobile ==
    /\ pc = "done"
    /\ ~raised
    /\ mob_score = Some(0)
    /\ view.mob_metric = <<"No data">>
    /\ document.mob_bar = <<"score", 0, "Red">>


----------------------------------------------------------------------------
(* flatten_ofcom: the zero guard on entries with absent headline fields,   *)
(* under SpecFlatten                                                       *)

\* the value of a canonical field in the nested sub-objects of a raw entry
NestedValue(r, f) ==
    IF Group(f) \in DOMAIN r THEN dget(r[Group(f)], NestedKey(f)) ELSE None

\* the raw entry has no flat top-level field
NestedOnlyEntry(r) == DOMAIN r \subseteq {"connectivity", "mobile"}

\* C21: a record is discarded as "no data" only under the zero guard as
\* stated: every non-empty raw entry in which at least one of the four
\* headline fields is absent or non-zero gives a canonical record, so an
\* entry with some headline fields absent, the others zero and superfast 95
\* is kept.
C21_KeptUnlessAllPresentAndZero ==
    (/\ pc = "done"
     /\ ~falsy(raw)
     /\ \E f \in Headline : SourceValue(raw, f) # Some(0)) =>
        ~falsy(ofcom)

\* C21 on entries without flat top-level fields, where the source of every
\* field is the nested sub-object that the code reads
C21_KeptNestedOnly ==
    (/\ pc = "done"
     /\ ~falsy(raw)
     /\ NestedOnlyEntry(raw)
     /\ \E f \in Headline : NestedValue(raw, f) # Some(0)) =>
        ~falsy(ofcom)

\* what the code does: a non-empty entry is discarded exactly when at least
\* one headline field is present in the nested sub-objects and every
\* headline field that is present there is zero
C21_GuardOfCode ==
    (pc = "done" /\ ~falsy(raw)) =>
        (falsy(ofcom) <=>
            /\ \E f \in Headline : NestedValue(raw, f) # None
            /\ \A f \in Headline :
                  NestedValue(raw, f) # None => NestedValue(raw, f) = Some(0))

\* full fibre zero, the other headline fields absent, superfast 95: the
\* entry is discarded
C21_ReachDiscarded ==
    /\ pc = "done"
    /\ NestedOnlyEntry(raw)
    /\ NestedValue(raw, "full_fibre_pct") = Some(0)
    /\ \A f \in Headline \ {"full_fibre_pct"} : NestedValue(raw, f) = None
    /\ NestedValue(raw, "superfast_pct") = Some(95)
    /\ falsy(ofcom)

\* a headline field non-zero, or all four absent: the entry is kept
C21_ReachKept ==
    /\ pc = "done"
    /\ NestedOnlyEntry(raw)
    /\ NestedValue(raw, "full_fibre_pct") = Some(0)
    /\ NestedValue(raw, "gigabit_pct") = Some(95)
    /\ ~falsy(ofcom)


----------------------------------------------------------------------------
(* Specification SpecModes: the single-park report of a park, then the     *)
(* area report of the same park                                            *)

\* lines 692-700: "All parks in <cluster>" is chosen in the park selector;
\* the script runs again in area mode
SelectAllParks ==
    /\ pc = "done"
    /\ pc' = "area_selected"
    /\ UNCHANGED <<ofcom_data, park, companies, raw, ofcom, conn_score,
                   conn_rag, mob_score, ops, opp_section>>
    /\ UNCHANGED aux

NextModes == GenerateReport \/ SelectAllParks \/ GenerateAreaReport

SpecModes == InitRender /\ [][NextModes]_vars

\* the step in which the area report follows the single-park report
AreaAfterPark == pc = "area_selected" /\ pc' = "area_done"

\* C22: for every park, a park with an empty or missing local-authority name
\* included, the single-park report and the area report use the same
\* resolved area record; a park with an empty local-authority name resolves
\* to "no data" in both.
C22_SameRecordInBothModes ==
    [][AreaAfterPark =>
          /\ ofcom' = ofcom
          /\ park.local_authority = <<>> => (falsy(ofcom) /\ falsy(ofcom'))]_vars

\* what the code does: with a local-authority name both modes call
\* get_ofcom and use the same record; with an empty name the area report
\* uses "no data" and the single-park report the first entry of the dataset
C22_SameRecordOfCode ==
    [][AreaAfterPark =>
          /\ park.local_authority # <<>> => ofcom' = ofcom
          /\ park.local_authority = <<>> =>
                /\ falsy(ofcom')
                /\ ofcom = flatten_ofcom(ofcom_data[1].val)]_vars

\* a park without a local-authority name: the single-park report has
\* resolved a complete record and shown its scores
C22_ReachEmptyNameResolved ==
    /\ pc = "area_selected"
    /\ park.local_authority = <<>>
    /\ ~falsy(ofcom)
    /\ ~Partial(ofcom)
    /\ ~raised
    /\ conn_score = Some(35)

\* the area report of the same park: no data
C22_ReachEmptyNameArea ==
    /\ pc = "area_done"
    /\ park.local_authority = <<>>
    /\ falsy(ofcom)
    /\ ofcom_data[1].val # EmptyDict

\* a park with a name: the same record in the area report
C22_ReachNamed ==
    /\ pc = "area_done"
    /\ park.local_authority # <<>>
    /\ ~falsy(ofcom)
    /\ companies # <<>>


----------------------------------------------------------------------------
(* Specification SpecSession: the script runs of one session, lines 24-40  *)
(* and the handlers behind them                                            *)

\* line 25
PASSWORD == <<"s", "c", "i", "p", "a", "r", "k", "s", "2", "0", "2", "6">>

\* variant of password_ok: any text is accepted
password_ok_any(text) == TRUE

\* line 34: pw == PASSWORD
password_ok(text) == text = PASSWORD

\* lines 27-28: the flag is created as False in the first run of a session
with_flag(state) ==
    IF "authenticated" \in DOMAIN state THEN state ELSE [authenticated |-> FALSE]

\* the complete area entry of the session's dataset
SessionEntry ==
    ("connectivity" :>
        [full_fibre_pct |-> Some(50), gigabit_pct |-> Some(50),
         superfast_pct |-> Some(95), no_decent_pct |-> Some(2),
         ff_takeup_pct |-> Some(20), avg_data_usage_gb |-> Some(300)])
    @@ ("mobile" :>
        [indoor_4g_all_operators_pct |-> Some(90),
         outdoor_4g_all_operators_pct |-> Some(90),
         outdoor_5g_all_operators_pct |-> Some(30),
         indoor_voice_all_operators_pct |-> Some(90)])

\* a new session: session_state is empty and the script runs for the first
\* time, with no widget touched
InitSession ==
    /\ session_state = EmptyDict
    /\ pw = <<>>
    /\ login_pressed = FALSE
    /\ generate_pressed = FALSE
    /\ pc = "gate"
    /\ ofcom_data = <<[key |-> <<"a">>, val |-> SessionEntry]>>
    /\ park \in {[local_authority |-> la, sector |-> <<>>, notes |-> <<>>,
                  tenants |-> <<>>] : la \in {<<>>, <<"a">>}}
    /\ companies = <<>>
    /\ ofcom = EmptyDict
    /\ raw = None
    /\ conn_score = None
    /\ conn_rag = "unset"
    /\ mob_score = None
    /\ ops = <<>>
    /\ opp_section = <<>>
    /\ flags = <<>>
    /\ sectors = <<>>
    /\ api_key = <<>>
    /\ response = "none"
    /\ requests_made = 0
    /\ view = <<>>
    /\ document = <<>>
    /\ raised = FALSE

\* the run has ended (st.stop(), or the end of the script); the user types
\* into the password field and presses Login, a Generate button or neither,
\* which starts the next script run
Interact ==
    /\ pc \in {"idle", "done", "area_done"}
    \* what is typed into the password field: nothing, the password, "letmein"
    /\ pw' \in {<<>>, PASSWORD, <<"l", "e", "t", "m", "e", "i", "n">>}
    /\ \E button \in {"none", "login", "generate"} :
          /\ login_pressed' = (button = "login")
          /\ generate_pressed' = (button = "generate")
    /\ pc' = "gate"
    /\ UNCHANGED <<ofcom_data, park, companies, raw, ofcom, conn_score,
                   conn_rag, mob_score, ops, opp_section>>
    /\ UNCHANGED <<flags, sectors, api_key, response, requests_made, view,
                   document, raised, session_state>>

\* lines 27-36: not authenticated, Login pressed with the password: the flag
\* is set and st.rerun() starts the script again, with no button pressed
LoginRun ==
    /\ pc = "gate"
    /\ ~with_flag(session_state).authenticated
    /\ login_pressed
    /\ password_ok(pw)
    /\ session_state' = [with_flag(session_state) EXCEPT !.authenticated = TRUE]
    /\ login_pressed' = FALSE
    /\ generate_pressed' = FALSE
    /\ pc' = "gate"
    /\ UNCHANGED <<ofcom_data, park, companies, raw, ofcom, conn_score,
                   conn_rag, mob_score, ops, opp_section>>
    /\ UNCHANGED <<flags, sectors, api_key, response, requests_made, view,
                   document, raised, pw>>

\* lines 27-40: not authenticated, and Login not pressed or the password
\* wrong: the login page is shown and st.stop() ends the run
LoginPage ==
    /\ pc = "gate"
    /\ ~with_flag(session_state).authenticated
    /\ ~(login_pressed /\ password_ok(pw))
    /\ session_state' = with_flag(session_state)
    /\ pc' = "idle"
    /\ UNCHANGED <<ofcom_data, park, companies, raw, ofcom, conn_score,
                   conn_rag, mob_score, ops, opp_section>>
    /\ UNCHANGED <<flags, sectors, api_key, response, requests_made, view,
                   document, raised, pw, login_pressed, generate_pressed>>

\* lines 30 and 42-719: authenticated, the script goes on past the gate to
\* the selectors; the handler of a Generate button runs when it is pressed
MainPage ==
    /\ pc = "gate"
    /\ with_flag(session_state).authenticated
    /\ pc' = (IF generate_pressed THEN "start" ELSE "idle")
    /\ UNCHANGED <<ofcom_data, park, companies, raw, ofcom, conn_score,
                   conn_rag, mob_score, ops, opp_section>>
    /\ UNCHANGED aux

NextSession ==
    \/ Interact
    \/ LoginRun
    \/ LoginPage
    \/ MainPage
    \/ GenerateReport
    \/ GenerateAreaReport

SpecSession == InitSession /\ [][NextSession]_vars

\* the session's authenticated flag; False while the key is not yet set
Authenticated ==
    "authenticated" \in DOMAIN session_state /\ session_state.authenticated

\* C23: across any sequence of script runs of a session, no area lookup,
\* registry request or report generation happens in a run in which the
\* authenticated flag is false; the flag starts false, becomes true only in
\* a run where Login is pressed with the entered password equal to the
\* configured password, and once true is never set back to false.
C23_AuthenticatedOnly ==
    /\ ~Authenticated
    /\ [][/\ (GenerateReport \/ GenerateAreaReport) => Authenticated
          /\ (ofcom' # ofcom \/ companies' # companies
                \/ requests_made' # requests_made \/ document' # document
                \/ view' # view) => Authenticated
          /\ (~Authenticated /\ Authenticated') =>
                (login_pressed /\ pw = PASSWORD)
          /\ Authenticated => Authenticated']_vars

\* a single-park report generated in an authenticated run: the area record
\* resolved and the document built
C23_Witness ==
    /\ pc = "done"
    /\ Authenticated
    /\ generate_pressed
    /\ ~falsy(ofcom)
    /\ document # <<>>

\* Login pressed with a wrong password: the login page again
C23_ReachRefused ==
    /\ pc = "idle"
    /\ ~Authenticated
    /\ login_pressed
    /\ pw = <<"l", "e", "t", "m", "e", "i", "n">>

\* a Generate press that reaches an unauthenticated run starts no handler
C23_ReachGenerateRefused ==
    /\ pc = "idle"
    /\ ~Authenticated
    /\ generate_pressed


====
